---- MODULE Spec2Model ----
(***************************************************************************)
(* Model of the receipt normalisation and ledger engine of                 *)
(* ai_domestic_accounts_book (src/receipt/*.py).                           *)
(*                                                                         *)
(* Python values are modelled as follows.                                  *)
(*   str        a sequence of one-character strings                        *)
(*   int/float  a number of halves (h stands for h/2), so that rounding to *)
(*              whole yen is a real conversion; NaN and infinity are       *)
(*              values of their own                                        *)
(*   None       the record None                                            *)
(*   dict/list  tagged records holding a function / a sequence             *)
(***************************************************************************)
EXTENDS Integers, Sequences, FiniteSets, TLC

VARIABLES
    \* ---- parse_receipt_dict: one call ----
    p_raw,          \* the raw extraction handed to parse_receipt_dict
    p_source_file,  \* its source file name
    p_pad_year,     \* whether the platform's strftime zero pads %Y
    p_outcome,      \* "pending", or what the call ended in
    \* ---- _judge_receipt_tags_by_ai: one call ----
    tag_items,      \* result.items, mutated in place
    tag_response,   \* what the tagging collaborator answers
    tag_pc,         \* "start" | "done"
    \* ---- _build_monthly_comparison_lines: one call ----
    m_current, m_prev,     \* the two totals maps
    m_lines,        \* "pending", or the lines returned
    \* ---- build_base_name: two receipts ----
    rcpt1, rcpt2,   \* two ReceiptResult summaries
    env,            \* what the platform and the file system answer
    base1, base2,   \* "pending", or the identifiers built
    \* ---- the document store and the monthly ledgers ----
    fs,             \* the directories: json (path -> document), csv (path ->
                    \* lines of a monthly ledger), input (image names),
                    \* processed and error (paths)
    calls,          \* history: one record per call made on the store
    \* ---- control ----
    batch,          \* main's loop over the receipt images
    procs           \* the position and the locals of each of two processes

parseVars == <<p_raw, p_source_file, p_pad_year, p_outcome>>
tagVars   == <<tag_items, tag_response, tag_pc>>
cmpVars   == <<m_current, m_prev, m_lines>>
idVars    == <<rcpt1, rcpt2, env, base1, base2>>
storeVars == <<fs, calls>>
runVars   == <<batch, procs>>
vars      == <<parseVars, tagVars, cmpVars, idVars, storeVars, runVars>>

(***************************************************************************)
(* Strings                                                                 *)
(***************************************************************************)
Str0 == << >>

Digits == {"0", "1", "2", "3", "4", "5", "6", "7", "8", "9"}

IsDigit(c) == c \in Digits

DigitVal(c) ==
    CASE c = "0" -> 0 [] c = "1" -> 1 [] c = "2" -> 2 [] c = "3" -> 3
      [] c = "4" -> 4 [] c = "5" -> 5 [] c = "6" -> 6 [] c = "7" -> 7
      [] c = "8" -> 8 [] c = "9" -> 9

DigitChar(n) ==
    CASE n = 0 -> "0" [] n = 1 -> "1" [] n = 2 -> "2" [] n = 3 -> "3"
      [] n = 4 -> "4" [] n = 5 -> "5" [] n = 6 -> "6" [] n = 7 -> "7"
      [] n = 8 -> "8" [] n = 9 -> "9"

IsSpace(c) == c = " "

\* str.strip()
RECURSIVE LStrip(_)
LStrip(s) == IF s # Str0 /\ IsSpace(Head(s)) THEN LStrip(Tail(s)) ELSE s

RECURSIVE RStrip(_)
RStrip(s) ==
    IF s # Str0 /\ IsSpace(s[Len(s)]) THEN RStrip(SubSeq(s, 1, Len(s) - 1)) ELSE s

Strip(s) == RStrip(LStrip(s))

\* int(s) of a string of decimal digits
RECURSIVE IntOfDigits(_)
IntOfDigits(s) ==
    IF s = Str0 THEN 0
    ELSE 10 * IntOfDigits(SubSeq(s, 1, Len(s) - 1)) + DigitVal(s[Len(s)])

\* the decimal digits of n >= 0, at least `width` of them (zero padded)
RECURSIVE ZeroPad(_, _)
ZeroPad(n, width) ==
    IF n < 10 /\ width <= 1 THEN <<DigitChar(n)>>
    ELSE ZeroPad(n \div 10, width - 1) \o <<DigitChar(n % 10)>>

\* the characters of s whose membership in set is `member`
RECURSIVE Filter(_, _, _)
Filter(s, set, member) ==
    IF s = Str0 THEN Str0
    ELSE (IF (Head(s) \in set) = member THEN <<Head(s)>> ELSE Str0)
         \o Filter(Tail(s), set, member)

\* the length of the longest run of s, from position i on, of characters
\* whose membership in set is `member`
RECURSIVE RunLen(_, _, _, _)
RunLen(s, i, set, member) ==
    IF i <= Len(s) /\ ((s[i] \in set) = member)
    THEN 1 + RunLen(s, i + 1, set, member) ELSE 0

(***************************************************************************)
(* Numbers                                                                 *)
(***************************************************************************)
\* Python's None
None == [k |-> "null"]

\* a Python int
PInt(n) == [k |-> "int", n |-> n]

\* a Python float: a number of halves, or one of the two special values
FNum(h) == [f |-> "num", h |-> h]
FNaN == [f |-> "nan"]
FInf == [f |-> "inf"]

\* Python's round(x) for x = h/2: ties go to the even integer
RoundHalfEven(h) ==
    IF h % 2 = 0 THEN h \div 2
    ELSE LET n == (h - 1) \div 2 IN IF n % 2 = 0 THEN n ELSE n + 1

(***************************************************************************)
(* JSON trees (the raw extraction, the tagging response)                   *)
(***************************************************************************)
S(s)  == [k |-> "str", s |-> s]
N(h)  == [k |-> "num", x |-> FNum(h)]
NaN   == [k |-> "num", x |-> FNaN]
Inf   == [k |-> "num", x |-> FInf]
D(f)  == [k |-> "dict", d |-> f]
L(q)  == [k |-> "list", l |-> q]
B(b)  == [k |-> "bool", b |-> b]
EmptyDict == D([key \in {} |-> None])

IsStr(v)  == v.k = "str"
\* isinstance(v, (int, float)): bool is a subclass of int
IsNum(v)  == v.k \in {"num", "bool"}
IsDict(v) == v.k = "dict"
IsList(v) == v.k = "list"

Has(node, key) == key \in DOMAIN node.d

\* dict.get(key): the value, or None
Get(node, key) == IF Has(node, key) THEN node.d[key] ELSE None

\* Python truthiness, as used by `x or default`
Truthy(v) ==
    CASE v.k = "null" -> FALSE
      [] v.k = "str"  -> v.s # Str0
      [] v.k = "num"  -> v.x # FNum(0)
      [] v.k = "bool" -> v.b
      [] v.k = "dict" -> DOMAIN v.d # {}
      [] v.k = "list" -> v.l # << >>

\* float(v) for a v with isinstance(v, (int, float))
FloatOf(v) == IF v.k = "bool" THEN FNum(IF v.b THEN 2 ELSE 0) ELSE v.x

(***************************************************************************)
(* Field Extractor (receipt_parser.py)                                     *)
(***************************************************************************)
StrKeys == <<"valueString", "content", "value", "valueDate", "valueTime">>

RECURSIVE FirstStrKey(_, _)
FirstStrKey(node, i) ==
    IF i > Len(StrKeys) THEN Str0
    ELSE IF Has(node, StrKeys[i]) /\ IsStr(node.d[StrKeys[i]])
         THEN node.d[StrKeys[i]].s
         ELSE FirstStrKey(node, i + 1)

_extract_text_value(node) ==
    IF node = None THEN Str0
    ELSE IF IsStr(node) THEN node.s
    ELSE IF IsDict(node) THEN FirstStrKey(node, 1)
    ELSE Str0

_extract_number_value(node) ==
    IF node = None THEN None
    ELSE IF IsNum(node) THEN FloatOf(node)
    ELSE IF IsDict(node) THEN
        IF Has(node, "valueNumber") /\ IsNum(node.d["valueNumber"])
        THEN FloatOf(node.d["valueNumber"])
        ELSE IF /\ Has(node, "valueCurrency")
                /\ IsDict(node.d["valueCurrency"])
                /\ IsNum(Get(node.d["valueCurrency"], "amount"))
        THEN FloatOf(Get(node.d["valueCurrency"], "amount"))
        ELSE IF IsNum(Get(node, "value")) THEN FloatOf(Get(node, "value"))
        ELSE None
    ELSE None

RECURSIVE PickStrFrom(_, _, _)
PickStrFrom(fields, candidates, i) ==
    IF i > Len(candidates) THEN Str0
    ELSE IF ~Has(fields, candidates[i]) THEN PickStrFrom(fields, candidates, i + 1)
    ELSE LET text == _extract_text_value(fields.d[candidates[i]])
         IN  IF Strip(text) # Str0 THEN text
             ELSE PickStrFrom(fields, candidates, i + 1)

_pick_str_field(fields, candidates) == PickStrFrom(fields, candidates, 1)

\* a search that ends at the first candidate whose key is present
PickNumFrom_first_present(fields, candidates, i) ==
    IF \A j \in 1..Len(candidates) : ~Has(fields, candidates[j]) THEN None
    ELSE _extract_number_value(
            fields.d[candidates[CHOOSE j \in 1..Len(candidates) :
                                    /\ Has(fields, candidates[j])
                                    /\ \A k \in 1..(j - 1) : ~Has(fields, candidates[k])]])

RECURSIVE PickNumFrom(_, _, _)
PickNumFrom(fields, candidates, i) ==
    IF i > Len(candidates) THEN None
    ELSE IF ~Has(fields, candidates[i]) THEN PickNumFrom(fields, candidates, i + 1)
    ELSE LET n == _extract_number_value(fields.d[candidates[i]])
         IN  IF n # None THEN n ELSE PickNumFrom(fields, candidates, i + 1)

_pick_num_field(fields, candidates) == PickNumFrom(fields, candidates, 1)

_extract_value_array(node) ==
    IF node = None THEN << >>
    ELSE IF IsList(node) THEN node.l
    ELSE IF IsDict(node) THEN
        IF IsList(Get(node, "valueArray")) THEN Get(node, "valueArray").l
        ELSE IF IsList(Get(node, "value")) THEN Get(node, "value").l
        ELSE IF /\ IsDict(Get(node, "value"))
                /\ IsList(Get(Get(node, "value"), "valueArray"))
        THEN Get(Get(node, "value"), "valueArray").l
        ELSE << >>
    ELSE << >>

_extract_value_object(elem) ==
    IF ~IsDict(elem) THEN EmptyDict
    ELSE IF IsDict(Get(elem, "valueObject")) THEN Get(elem, "valueObject")
    ELSE IF IsDict(Get(elem, "value")) THEN Get(elem, "value")
    ELSE EmptyDict

(***************************************************************************)
(* Dates and times (datetime)                                              *)
(***************************************************************************)
IsLeap(y) == (y % 4 = 0 /\ y % 100 # 0) \/ y % 400 = 0

DaysInMonth(y, m) ==
    IF m = 2 THEN (IF IsLeap(y) THEN 29 ELSE 28)
    ELSE IF m \in {4, 6, 9, 11} THEN 30 ELSE 31

\* date(y, m, d): the date, or None for ValueError
MkDate(y, m, d) ==
    IF y \in 1..9999 /\ m \in 1..12 /\ d >= 1 /\ d <= DaysInMonth(y, m)
    THEN [y |-> y, m |-> m, d |-> d]
    ELSE None

DateLess(a, b) ==
    \/ a.y < b.y
    \/ a.y = b.y /\ a.m < b.m
    \/ a.y = b.y /\ a.m = b.m /\ a.d < b.d

AllDigits(s) == \A i \in 1..Len(s) : IsDigit(s[i])

\* datetime.fromisoformat(s).date() for the date-only forms YYYY-MM-DD and
\* YYYYMMDD; None for ValueError.
FromIsoFormat(s) ==
    IF /\ Len(s) = 10 /\ s[5] = "-" /\ s[8] = "-"
       /\ AllDigits(SubSeq(s, 1, 4)) /\ AllDigits(SubSeq(s, 6, 7))
       /\ AllDigits(SubSeq(s, 9, 10))
    THEN MkDate(IntOfDigits(SubSeq(s, 1, 4)), IntOfDigits(SubSeq(s, 6, 7)),
                IntOfDigits(SubSeq(s, 9, 10)))
    ELSE IF Len(s) = 8 /\ AllDigits(s)
    THEN MkDate(IntOfDigits(SubSeq(s, 1, 4)), IntOfDigits(SubSeq(s, 5, 6)),
                IntOfDigits(SubSeq(s, 7, 8)))
    ELSE None

\* strftime's %Y. The C library decides whether a year below 1000 is zero
\* padded: glibc does not pad, the Windows and macOS libraries do.
FormatYear(y, pad_year) == IF pad_year THEN ZeroPad(y, 4) ELSE ZeroPad(y, 1)

\* d.strftime("%Y-%m-%d")
FormatIsoDate(d, pad_year) ==
    FormatYear(d.y, pad_year) \o <<"-">> \o ZeroPad(d.m, 2) \o <<"-">> \o ZeroPad(d.d, 2)

\* f"{d:%Y%m%d}"
FormatYmd(d, pad_year) ==
    FormatYear(d.y, pad_year) \o ZeroPad(d.m, 2) \o ZeroPad(d.d, 2)

DRun(s, i) == RunLen(s, i, Digits, TRUE)
NRun(s, i) == RunLen(s, i, Digits, FALSE)

SetMin(set) == CHOOSE x \in set : \A y \in set : x <= y

\* re.search(r"(\d{4})\D+(\d{1,2})\D+(\d{1,2})", s): the three groups of the
\* leftmost match as <<int, int, int>>, or << >> when nothing matches.
\* A match starting at i needs exactly four digits from i on, a run of
\* non-digits, one or two digits that end their run, a run of non-digits
\* and a digit; the last group takes two digits when there are two.
\* p2 and p3 are where the second and the third group start.
DateGroups(s, i, p2, r2, p3, r3) ==
    IF DRun(s, i) = 4 /\ p2 > i + 4 /\ r2 \in {1, 2} /\ p3 > p2 + r2 /\ r3 >= 1
    THEN <<IntOfDigits(SubSeq(s, i, i + 3)),
           IntOfDigits(SubSeq(s, p2, p2 + r2 - 1)),
           IntOfDigits(SubSeq(s, p3, p3 + (IF r3 >= 2 THEN 1 ELSE 0)))>>
    ELSE << >>

DateGroup3(s, i, p2, r2, p3) == DateGroups(s, i, p2, r2, p3, DRun(s, p3))

DateGroup2(s, i, p2, r2) == DateGroup3(s, i, p2, r2, p2 + r2 + NRun(s, p2 + r2))

DateGroup1(s, i, p2) == DateGroup2(s, i, p2, DRun(s, p2))

DateMatchAt(s, i) == DateGroup1(s, i, i + 4 + NRun(s, i + 4))

FirstOf(starts) == IF starts = {} THEN 0 ELSE SetMin(starts)

DateSearchFrom(s, i) == IF i = 0 THEN << >> ELSE DateMatchAt(s, i)

DateSearch(s) ==
    DateSearchFrom(s, FirstOf({i \in 1..Len(s) : DateMatchAt(s, i) # << >>}))

DateOfGroups(g) == IF g = << >> THEN None ELSE MkDate(g[1], g[2], g[3])

ParseDateFrom(iso, s) == IF iso # None THEN iso ELSE DateOfGroups(DateSearch(s))

ParseDateStripped(s) == ParseDateFrom(FromIsoFormat(s), s)

\* the date named by a date string, or None: _parse_date (receipt_store.py)
_parse_date(text) == ParseDateStripped(Strip(text))

FormatDateOrEmpty(d, pad_year) == IF d = None THEN Str0 ELSE FormatIsoDate(d, pad_year)

NormalizeDateStripped(s, pad_year) ==
    IF s = Str0 THEN Str0 ELSE FormatDateOrEmpty(ParseDateStripped(s), pad_year)

_normalize_date_iso(text, pad_year) == NormalizeDateStripped(Strip(text), pad_year)

\* datetime(2000, 1, 1, hh, mm, ss).time().strftime("%H:%M:%S"), or Str0
\* for ValueError
FormatTime(hh, mm, ss) ==
    IF hh \in 0..23 /\ mm \in 0..59 /\ ss \in 0..59
    THEN ZeroPad(hh, 2) \o <<":">> \o ZeroPad(mm, 2) \o <<":">> \o ZeroPad(ss, 2)
    ELSE Str0

\* re.search(r"(\d{1,2})\D+(\d{1,2})(?:\D+(\d{1,2}))?", s): <<hh, mm, ss>> of
\* the leftmost match (ss = 0 when the third group is absent), or << >>.
\* r1 digits from i on end their run, p2 is where the second group starts,
\* l2 is its length, p3 is where the third group starts if there is one.
TimeGroups(s, i, r1, p2, l2, p3, r3) ==
    IF r1 \in {1, 2} /\ p2 > i + r1 /\ l2 >= 1
    THEN <<IntOfDigits(SubSeq(s, i, i + r1 - 1)),
           IntOfDigits(SubSeq(s, p2, p2 + l2 - 1)),
           IF p3 > p2 + l2 /\ r3 >= 1
           THEN IntOfDigits(SubSeq(s, p3, p3 + (IF r3 >= 2 THEN 1 ELSE 0)))
           ELSE 0>>
    ELSE << >>

TimeGroup3(s, i, r1, p2, l2, p3) == TimeGroups(s, i, r1, p2, l2, p3, DRun(s, p3))

TimeGroup2(s, i, r1, p2, l2) ==
    TimeGroup3(s, i, r1, p2, l2, p2 + l2 + NRun(s, p2 + l2))

TimeGroup1(s, i, r1, p2, r2) ==
    TimeGroup2(s, i, r1, p2, IF r2 >= 2 THEN 2 ELSE r2)

TimeGroup0(s, i, r1, p2) == TimeGroup1(s, i, r1, p2, DRun(s, p2))

TimeRun1(s, i, r1) == TimeGroup0(s, i, r1, i + r1 + NRun(s, i + r1))

TimeMatchAt(s, i) == TimeRun1(s, i, DRun(s, i))

TimeSearchFrom(s, i) == IF i = 0 THEN << >> ELSE TimeMatchAt(s, i)

TimeSearch(s) ==
    TimeSearchFrom(s, FirstOf({i \in 1..Len(s) : TimeMatchAt(s, i) # << >>}))

FormatTimeGroups(g) == IF g = << >> THEN Str0 ELSE FormatTime(g[1], g[2], g[3])

TimeOfDigits(digits) ==
    IF Len(digits) \in {4, 6}
    THEN FormatTime(IntOfDigits(SubSeq(digits, 1, 2)),
                    IntOfDigits(SubSeq(digits, 3, 4)),
                    IF Len(digits) = 6 THEN IntOfDigits(SubSeq(digits, 5, 6)) ELSE 0)
    ELSE Str0

TimeFrom(s, matched) ==
    IF matched # Str0 THEN matched ELSE TimeOfDigits(Filter(s, Digits, TRUE))

NormalizeTimeStripped(s) ==
    IF s = Str0 THEN Str0 ELSE TimeFrom(s, FormatTimeGroups(TimeSearch(s)))

_normalize_time_norm(text) == NormalizeTimeStripped(Strip(text))

(***************************************************************************)
(* Receipt Normalizer (receipt_parser.py)                                  *)
(***************************************************************************)
\* what a call ends in
Return(v) == [kind |-> "return", value |-> v]
Raise(exc, msg) == [kind |-> "raise", exc |-> exc, msg |-> msg]

\* the result of int(round(float(v))) when v is infinite: OverflowError,
\* which _to_yen_int does not catch
Overflow == [k |-> "overflow"]

_to_yen_int(v) ==
    IF v = None THEN None
    ELSE IF v = FNaN THEN None          \* ValueError, caught
    ELSE IF v = FInf THEN Overflow      \* OverflowError, not caught
    ELSE PInt(RoundHalfEven(v.h))

\* the characters of the total patterns that are not ASCII, by code point
KIN == "U+91D1"
GAKU == "U+984D"
GOU == "U+5408"
KEI == "U+8A08"
YEN_SIGN == "U+00A5"
EN == "U+5186"
WIDE_COLON == "U+FF1A"

AmountChars == Digits \cup {","}
Colons == {":", WIDE_COLON}

SRun(s, i) == RunLen(s, i, {" "}, TRUE)
ARun(s, i) == RunLen(s, i, AmountChars, TRUE)

At(s, i, c) == i <= Len(s) /\ s[i] = c

\* the position after an optional colon at j
SkipColon(s, j) == IF j <= Len(s) /\ s[j] \in Colons THEN j + 1 ELSE j

SkipSpaces(s, j) == j + SRun(s, j)

SkipYen(s, j) == IF At(s, j, YEN_SIGN) THEN j + 1 ELSE j

\* the run of amount characters at p, or Str0
AmountAt(s, p, a) == IF a >= 1 THEN SubSeq(s, p, p + a - 1) ELSE Str0

Amount(s, p) == AmountAt(s, p, ARun(s, p))

\* the amount at p when spaces and then <EN> follow it, else Str0
AmountThenEn(s, p, a) ==
    IF a >= 1 /\ At(s, SkipSpaces(s, p + a), EN) THEN SubSeq(s, p, p + a - 1) ELSE Str0

\* r"<KIN><GAKU>[:<WIDE_COLON>]?\s*([0-9,]+)\s*<EN>" matched at i: the group, or Str0
Pattern1Amount(s, p) == AmountThenEn(s, p, ARun(s, p))

Pattern1At(s, i) ==
    IF At(s, i, KIN) /\ At(s, i + 1, GAKU)
    THEN Pattern1Amount(s, SkipSpaces(s, SkipColon(s, i + 2))) ELSE Str0

\* r"<GOU><KEI>[:<WIDE_COLON>]?\s*<YEN_SIGN>?\s*([0-9,]+)" matched at i: the group, or Str0
Pattern2At(s, i) ==
    IF At(s, i, GOU) /\ At(s, i + 1, KEI)
    THEN Amount(s, SkipSpaces(s, SkipYen(s, SkipSpaces(s, SkipColon(s, i + 2)))))
    ELSE Str0

\* r"<YEN_SIGN>\s*([0-9,]+)" matched at i: the group, or Str0
Pattern3At(s, i) ==
    IF At(s, i, YEN_SIGN) THEN Amount(s, SkipSpaces(s, i + 1)) ELSE Str0

PatternAt(n, s, i) ==
    CASE n = 1 -> Pattern1At(s, i)
      [] n = 2 -> Pattern2At(s, i)
      [] n = 3 -> Pattern3At(s, i)

\* re.search(patterns[n], text): group 1 of the leftmost match, or Str0
PatternSearchFrom(n, s, i) == IF i = 0 THEN Str0 ELSE PatternAt(n, s, i)

PatternSearch(n, s) ==
    PatternSearchFrom(n, s, FirstOf({i \in 1..Len(s) : PatternAt(n, s, i) # Str0}))

\* float(digits) for a string of digits; None stands for ValueError
FloatOfDigitString(digits) ==
    IF digits = Str0 THEN None ELSE FNum(2 * IntOfDigits(digits))

\* float(group.replace(",", "")) of a match; None when there is no match
FloatOfAmount(group) ==
    IF group = Str0 THEN None ELSE FloatOfDigitString(Filter(group, {","}, FALSE))

RECURSIVE TotalFromPatterns(_, _)
TryPattern(text, n, amount) ==
    IF amount # None THEN amount ELSE TotalFromPatterns(text, n + 1)

TotalFromPatterns(text, n) ==
    IF n > 3 THEN None ELSE TryPattern(text, n, FloatOfAmount(PatternSearch(n, text)))

_extract_total_from_text(text) ==
    IF text = Str0 THEN None ELSE TotalFromPatterns(text, 1)

ReceiptItem(name, total_price, quantity, unit_price) ==
    [name |-> name, total_price |-> total_price, quantity |-> quantity,
     unit_price |-> unit_price,
     total_price_yen |-> None, unit_price_yen |-> None,
     tag |-> "None", tag_reason |-> S(Str0)]

NormalizedItem(name, total_price, quantity, unit_price) ==
    [ReceiptItem(name, total_price, quantity, unit_price) EXCEPT
        !.tag = "UNKNOWN", !.tag_reason = S(Str0),
        !.total_price_yen = _to_yen_int(total_price),
        !.unit_price_yen = _to_yen_int(unit_price)]

\* a filter that keeps every element that has a value object
KeepItem_keep_all(item) == <<item>>

KeepItem(item) ==
    IF Strip(item.name) = Str0 /\ item.total_price = None /\ item.unit_price = None
    THEN << >> ELSE <<item>>

ItemOfObject(obj) ==
    IF obj = EmptyDict THEN << >>
    ELSE KeepItem(NormalizedItem(
            _pick_str_field(obj, <<"Description", "Name", "ProductName", "ItemName">>),
            _pick_num_field(obj, <<"TotalPrice", "Amount", "Price", "LineTotal">>),
            _pick_num_field(obj, <<"Quantity", "Qty">>),
            _pick_num_field(obj, <<"UnitPrice", "UnitCost", "Price">>)))

\* one element of the line-item array: << >> when it is dropped, else <<item>>
ParseItem(elem) == ItemOfObject(_extract_value_object(elem))

RECURSIVE ParseItemsFrom(_)
ParseItemsFrom(value_array) ==
    IF value_array = << >> THEN << >>
    ELSE ParseItem(Head(value_array)) \o ParseItemsFrom(Tail(value_array))

ItemsKeys == <<"Items", "LineItems", "PurchasedItems">>

ItemsOfNode(node) ==
    IF node = None THEN << >> ELSE ParseItemsFrom(_extract_value_array(node))

ItemsNode(fields, present) ==
    IF present = {} THEN None ELSE fields.d[ItemsKeys[SetMin(present)]]

\* the list of items; an item whose yen price is Overflow marks a call that
\* raised OverflowError
_parse_items(fields) ==
    ItemsOfNode(ItemsNode(fields, {i \in 1..Len(ItemsKeys) : Has(fields, ItemsKeys[i])}))

ItemsOverflow(items) ==
    \E i \in 1..Len(items) :
        items[i].total_price_yen = Overflow \/ items[i].unit_price_yen = Overflow

\* str.lstrip(":")
RECURSIVE LStripColon(_)
LStripColon(s) == IF s # Str0 /\ Head(s) = ":" THEN LStripColon(Tail(s)) ELSE s

ReceiptSummary(fields) ==
    [merchant_name |-> _pick_str_field(fields, <<"MerchantName", "VendorName", "StoreName">>),
     merchant_address |-> _pick_str_field(fields,
                            <<"MerchantAddress", "Address", "VendorAddress", "StoreAddress">>),
     merchant_phone |-> _pick_str_field(fields,
                            <<"MerchantPhoneNumber", "PhoneNumber", "Tel", "Telephone">>),
     date |-> _pick_str_field(fields, <<"TransactionDate", "Date">>),
     time |-> _pick_str_field(fields, <<"TransactionTime", "Time">>),
     total |-> _pick_num_field(fields, <<"Total", "Amount", "TotalAmount">>),
     tax |-> _pick_num_field(fields, <<"TotalTax", "Tax", "TaxAmount">>),
     date_iso |-> Str0, time_norm |-> Str0, total_yen |-> None, tax_yen |-> None,
     used_fallback_date |-> FALSE, has_items |-> TRUE]

\* a validity rule that looks at the raw total instead of the yen total
NotAReceipt_raw_total(summary, items) == summary.total = None /\ Len(items) = 0

\* the receipt validity rule (lines 71-78)
NotAReceipt(summary, items) == summary.total_yen = None /\ Len(items) = 0

\* a pseudo-item whose unit price is left unset
PseudoItem_no_unit_price(summary) ==
    [ReceiptItem(IF summary.merchant_name # Str0 THEN summary.merchant_name
                 ELSE <<"U", "N", "K", "N", "O", "W", "N">>,
                 summary.total, PInt(1), summary.total) EXCEPT
        !.total_price_yen = summary.total_yen,
        !.tag = "UNKNOWN"]

\* the pseudo-item (lines 80-93)
PseudoItem(summary) ==
    [ReceiptItem(IF summary.merchant_name # Str0 THEN summary.merchant_name
                 ELSE <<"U", "N", "K", "N", "O", "W", "N">>,
                 summary.total, PInt(1), summary.total) EXCEPT
        !.total_price_yen = summary.total_yen,
        !.unit_price_yen = summary.total_yen,
        !.tag = "UNKNOWN",
        !.tag_reason = S(Str0)]

\* line 45
StripPhone(s) == [s EXCEPT !.merchant_phone = Strip(LStripColon(s.merchant_phone))]

\* raw.get("content") or ""
NodeOrEmpty(content) == IF Truthy(content) THEN content ELSE S(Str0)

TextOf(raw) == NodeOrEmpty(Get(raw, "content"))

\* lines 48-52: the total from the free text when the fields gave none
TotalFallback(s, text) ==
    IF s.total = None /\ IsStr(text)
    THEN [s EXCEPT !.total = _extract_total_from_text(text.s)] ELSE s

\* lines 55-58
Normalized(s, pad_year) ==
    [s EXCEPT !.date_iso = _normalize_date_iso(s.date, pad_year),
              !.time_norm = _normalize_time_norm(s.time),
              !.total_yen = _to_yen_int(s.total),
              !.tax_yen = _to_yen_int(s.tax)]

NormalizeOutcome(s1, text, summary, items) ==
    IF s1.total = None /\ ~IsStr(text)
    THEN Raise("TypeError", "expected string or bytes-like object")
    ELSE IF summary.total_yen = Overflow \/ summary.tax_yen = Overflow
            \/ ItemsOverflow(items)
    THEN Raise("OverflowError", "cannot convert float infinity to integer")
    ELSE Return([summary |-> summary, items |-> items])

NormalizeFrom(s1, text, items, pad_year) ==
    NormalizeOutcome(s1, text, Normalized(TotalFallback(s1, text), pad_year), items)

\* lines 35-69, once `fields` is known to be a dict: the summary and the
\* items as they stand before the validity rule, or the exception raised
Normalize(raw, fields, pad_year) ==
    NormalizeFrom(StripPhone(ReceiptSummary(fields)), TextOf(raw),
                  _parse_items(fields), pad_year)

WithItems(summary, items, source_file) ==
    Return([source_file |-> source_file,
            summary |-> [summary EXCEPT !.has_items = Len(items) > 0],
            items |-> items])

\* a validity rule that is not followed by the pseudo-item
Finish_no_pseudo(summary, items, source_file) ==
    IF NotAReceipt(summary, items)
    THEN Raise("ValueError", "NOT A RECEIPT")
    ELSE WithItems(summary, items, source_file)

\* lines 71-105: the validity rule, the pseudo-item, has_items
Finish(summary, items, source_file) ==
    IF NotAReceipt(summary, items)
    THEN Raise("ValueError", "NOT A RECEIPT")
    ELSE WithItems(summary,
                   IF Len(items) = 0 /\ summary.total_yen # None
                   THEN Append(items, PseudoItem(summary)) ELSE items,
                   source_file)

FinishOutcome(n, source_file) ==
    IF n.kind = "raise" THEN n
    ELSE Finish(n.value.summary, n.value.items, source_file)

ParseFields(raw, fields, source_file, pad_year) ==
    FinishOutcome(Normalize(raw, fields, pad_year), source_file)

\* lines 30-32: the fields of the first document, or the exception that a
\* container of the wrong type raises
FieldsNode(fields) ==
    IF IsNum(fields) THEN Raise("TypeError", "argument is not iterable")
    \* a list or a string that holds none of the field names: every
    \* `key in fields` is False
    ELSE IF ~IsDict(fields) THEN Return(EmptyDict)
    ELSE Return(fields)

\* doc0.get("fields") or {}
FieldsOrEmpty(node) == FieldsNode(IF Truthy(node) THEN node ELSE EmptyDict)

FieldsOfDoc(doc0) ==
    IF ~IsDict(doc0) THEN Raise("AttributeError", "object has no attribute 'get'")
    ELSE FieldsOrEmpty(Get(doc0, "fields"))

\* docs[0] if docs else {}
FieldsOfDocs(docs) ==
    IF IsDict(docs) THEN Raise("KeyError", "0")
    ELSE IF IsList(docs)
    THEN FieldsOfDoc(IF docs.l # << >> THEN docs.l[1] ELSE EmptyDict)
    ELSE IF IsStr(docs) THEN FieldsOfDoc(S(<<docs.s[1]>>))
    ELSE Raise("TypeError", "object is not subscriptable")

\* raw.get("documents") or []
DocsOrEmpty(documents) == FieldsOfDocs(IF Truthy(documents) THEN documents ELSE L(<< >>))

FieldsOf(raw) == DocsOrEmpty(Get(raw, "documents"))

ParseOutcome(raw, f, source_file, pad_year) ==
    IF f.kind = "raise" THEN f
    ELSE ParseFields(raw, f.value, source_file, pad_year)

\* parse_receipt_dict(raw, source_file); raw is a dict node
parse_receipt_dict(raw, source_file, pad_year) ==
    ParseOutcome(raw, FieldsOf(raw), source_file, pad_year)

(***************************************************************************)
(* Tagger: ReceiptManager._judge_receipt_tags_by_ai                        *)
(***************************************************************************)
\* the members of the enum ReceiptTag and their values, as sequences of code
\* points
ReceiptTag ==
    ("FOOD" :> <<39135, 36027>>)
    @@ ("EAT_OUT" :> <<22806, 39135>>)
    @@ ("DAILY_NECESSITIES" :> <<26085, 29992, 21697>>)
    @@ ("MEDICAL" :> <<21307, 30274>>)
    @@ ("TRANSPORTATION" :> <<20132, 36890>>)
    @@ ("ENTERTAINMENT" :> <<23087, 27005>>)
    @@ ("CLOTHING" :> <<34915, 39006>>)
    @@ ("HOUSING" :> <<20303, 23621>>)
    @@ ("UTILITIES" :> <<20844, 20849, 26009, 37329>>)
    @@ ("COMMUNICATION" :> <<36890, 20449>>)
    @@ ("EDUCATION" :> <<25945, 32946>>)
    @@ ("WORK" :> <<20181, 20107>>)
    @@ ("OTHER" :> <<12381, 12398, 20182>>)
    @@ ("UNKNOWN" :> <<19981, 26126>>)

ReceiptTagValues == {ReceiptTag[member] : member \in DOMAIN ReceiptTag}

AI_TAG_TO_RECEIPT_TAG ==
    (<<"F", "o", "o", "d">> :> "FOOD")
    @@ (<<"E", "a", "t", "i", "n", "g", " ", "O", "u", "t">> :> "EAT_OUT")
    @@ (<<"D", "a", "i", "l", "y", " ", "N", "e", "c", "e", "s", "s", "i", "t", "i", "e", "s">> :> "DAILY_NECESSITIES")
    @@ (<<"M", "e", "d", "i", "c", "a", "l">> :> "MEDICAL")
    @@ (<<"T", "r", "a", "n", "s", "p", "o", "r", "t", "a", "t", "i", "o", "n">> :> "TRANSPORTATION")
    @@ (<<"E", "n", "t", "e", "r", "t", "a", "i", "n", "m", "e", "n", "t">> :> "ENTERTAINMENT")
    @@ (<<"C", "l", "o", "t", "h", "i", "n", "g">> :> "CLOTHING")
    @@ (<<"H", "o", "u", "s", "i", "n", "g">> :> "HOUSING")
    @@ (<<"U", "t", "i", "l", "i", "t", "i", "e", "s">> :> "UTILITIES")
    @@ (<<"C", "o", "m", "m", "u", "n", "i", "c", "a", "t", "i", "o", "n">> :> "COMMUNICATION")
    @@ (<<"E", "d", "u", "c", "a", "t", "i", "o", "n">> :> "EDUCATION")
    @@ (<<"W", "o", "r", "k">> :> "WORK")
    @@ (<<"O", "t", "h", "e", "r">> :> "OTHER")
    @@ (<<"U", "n", "k", "n", "o", "w", "n">> :> "UNKNOWN")

\* a value that can be a dict key: a list or a dict raises TypeError
IsHashable(v) == ~IsDict(v) /\ ~IsList(v)

\* lines 672-677: the tag of a label; a label that is not in the table is
\* UNKNOWN
TagOfLabel(tag_raw) ==
    IF IsStr(tag_raw) /\ tag_raw.s \in DOMAIN AI_TAG_TO_RECEIPT_TAG
    THEN AI_TAG_TO_RECEIPT_TAG[tag_raw.s]
    ELSE "UNKNOWN"

\* ai_item.get(key, "")
GetOrEmpty(ai_item, key) == IF Has(ai_item, key) THEN ai_item.d[key] ELSE S(Str0)

\* a lookup in which the first item of a name wins
ItemOfName_first(items, name) ==
    IF IsStr(name) /\ \E i \in 1..Len(items) : items[i].name = name.s
    THEN CHOOSE i \in 1..Len(items) :
            /\ items[i].name = name.s
            /\ \A j \in 1..(i - 1) : items[j].name # name.s
    ELSE 0

\* item_map.get(name): the index of the last item of that name, or 0
ItemOfName(items, name) ==
    IF IsStr(name) /\ \E i \in 1..Len(items) : items[i].name = name.s
    THEN CHOOSE i \in 1..Len(items) :
            /\ items[i].name = name.s
            /\ \A j \in (i + 1)..Len(items) : items[j].name # name.s
    ELSE 0

\* lines 679-681 for one item
Tagged(item, tag_raw, reason) ==
    [item EXCEPT !.tag = TagOfLabel(tag_raw),
                 !.tag_reason = IF Truthy(reason) THEN reason ELSE S(Str0)]

TaggingFailed == [kind |-> "failed"]

\* lines 661-681: the tags of ai_items[n..] applied to items, or
\* TaggingFailed when an entry raises
RECURSIVE ApplyTags(_, _, _)
ApplyTag(items, ai_items, n, ai_item, i) ==
    IF i = 0 THEN ApplyTags(items, ai_items, n + 1)
    ELSE IF ~IsHashable(GetOrEmpty(ai_item, "tag")) THEN TaggingFailed
    ELSE ApplyTags([items EXCEPT ![i] = Tagged(items[i], GetOrEmpty(ai_item, "tag"),
                                                GetOrEmpty(ai_item, "reason"))],
                   ai_items, n + 1)

\* a loop that skips an entry that is not an object and keeps the tags
\* applied so far
ApplyTagOf_skip_non_object(items, ai_items, n, ai_item) ==
    IF ~IsDict(ai_item) THEN ApplyTags(items, ai_items, n + 1)
    ELSE IF ~IsHashable(GetOrEmpty(ai_item, "name")) THEN TaggingFailed
    ELSE ApplyTag(items, ai_items, n, ai_item,
                  ItemOfName(items, GetOrEmpty(ai_item, "name")))

ApplyTagOf(items, ai_items, n, ai_item) ==
    IF ~IsDict(ai_item) THEN TaggingFailed
    ELSE IF ~IsHashable(GetOrEmpty(ai_item, "name")) THEN TaggingFailed
    ELSE ApplyTag(items, ai_items, n, ai_item,
                  ItemOfName(items, GetOrEmpty(ai_item, "name")))

\* the item map of line 656 is built once: names are looked up in the items
\* as they were given, and tagging does not change a name
ApplyTags(items, ai_items, n) ==
    IF n > Len(ai_items) THEN [kind |-> "ok", items |-> items]
    ELSE ApplyTagOf(items, ai_items, n, ai_items[n])

\* a reconciliation that does not compare the two counts
TagsOfItems_no_count_check(items, ai_items) ==
    IF ~IsList(ai_items) THEN TaggingFailed
    ELSE ApplyTags(items, ai_items.l, 1)

\* lines 641-681
TagsOfItems(items, ai_items) ==
    IF ~IsList(ai_items) THEN TaggingFailed
    ELSE IF Len(ai_items.l) # Len(items) THEN TaggingFailed
    ELSE ApplyTags(items, ai_items.l, 1)

\* lines 622-681: response is what request_generative_ai gave
TagsOfResponse(items, response) ==
    IF response.kind # "json" THEN TaggingFailed
    ELSE IF ~IsDict(response.value) THEN TaggingFailed
    ELSE TagsOfItems(items, Get(response.value, "items"))

\* lines 689-695
FailSafe(items) ==
    [i \in DOMAIN items |->
        [items[i] EXCEPT !.tag = "UNKNOWN", !.tag_reason = S(Str0)]]

TagsOrFailSafe(items, tagged) ==
    IF tagged.kind = "ok" THEN tagged.items ELSE FailSafe(items)

\* the items as _judge_receipt_tags_by_ai leaves them
_judge_receipt_tags_by_ai(items, response) ==
    TagsOrFailSafe(items, TagsOfResponse(items, response))

(***************************************************************************)
(* Aggregator: ReceiptManager._build_monthly_comparison_lines              *)
(***************************************************************************)
RECEIPT_TAG_EN_MAP ==
    ("FOOD" :> "food")
    @@ ("EAT_OUT" :> "eating out")
    @@ ("DAILY_NECESSITIES" :> "daily necessities")
    @@ ("MEDICAL" :> "medical")
    @@ ("TRANSPORTATION" :> "transportation")
    @@ ("ENTERTAINMENT" :> "entertainment")
    @@ ("CLOTHING" :> "clothing")
    @@ ("HOUSING" :> "housing")
    @@ ("UTILITIES" :> "utilities")
    @@ ("COMMUNICATION" :> "communication")
    @@ ("EDUCATION" :> "education")
    @@ ("WORK" :> "work")
    @@ ("OTHER" :> "other")
    @@ ("UNKNOWN" :> "unknown")

\* type_def.ReceiptTag(tag): the member whose value is tag
_tag_to_en(tag) ==
    IF tag \in ReceiptTagValues
    THEN RECEIPT_TAG_EN_MAP[CHOOSE member \in DOMAIN ReceiptTag : ReceiptTag[member] = tag]
    ELSE "unknown"

\* the order of str: by code point, a proper prefix first
RECURSIVE StrLess(_, _)
StrLess(a, b) ==
    IF b = << >> THEN FALSE
    ELSE IF a = << >> THEN TRUE
    ELSE IF Head(a) # Head(b) THEN Head(a) < Head(b)
    ELSE StrLess(Tail(a), Tail(b))

\* sorted(keys)
RECURSIVE Sorted(_)
Sorted(keys) ==
    IF keys = {} THEN << >>
    ELSE LET first == CHOOSE k \in keys : \A other \in keys \ {k} : StrLess(k, other)
         IN <<first>> \o Sorted(keys \ {first})

\* totals.get(tag, 0)
GetOrZero(totals, tag) == IF tag \in DOMAIN totals THEN totals[tag] ELSE 0

\* FORMAT_<format>.format(tag=tag_en, amount or diff = amount)
Line(format, tag_en, amount) == [format |-> format, tag |-> tag_en, amount |-> amount]

\* lines 866-908: the lines added for one tag
LinesOfTag(tag_en, current, prev) ==
    IF current = 0 /\ prev = 0 THEN << >>
    ELSE IF current > prev
    THEN IF prev = 0 THEN <<Line("NEW", tag_en, current)>>
         ELSE <<Line("INCREASE", tag_en, current - prev)>>
    ELSE IF current < prev
    THEN IF current = 0 THEN <<Line("DISAPPEARED", tag_en, 0)>>
         ELSE <<Line("DECREASE", tag_en, prev - current)>>
    ELSE <<Line("NO_CHANGE", tag_en, current)>>

RECURSIVE LinesOfTags(_, _, _)
LinesOfTags(tags, current_totals, prev_totals) ==
    IF tags = << >> THEN << >>
    ELSE LinesOfTag(_tag_to_en(Head(tags)), GetOrZero(current_totals, Head(tags)),
                    GetOrZero(prev_totals, Head(tags)))
         \o LinesOfTags(Tail(tags), current_totals, prev_totals)

_build_monthly_comparison_lines(current_totals, prev_totals) ==
    LinesOfTags(Sorted(DOMAIN current_totals \cup DOMAIN prev_totals),
                current_totals, prev_totals)

(***************************************************************************)
(* Identity: receipt_store.build_base_name                                 *)
(***************************************************************************)
\* main.py: re.compile(r'[\\/:*?"<>|]+')
INVALID_FILENAME_CHARS == {"\\", "/", ":", "*", "?", "\"", "<", ">", "|"}

\* pattern.sub("_", s): every maximal run of characters of the class
\* becomes one "_"
RECURSIVE SubRuns(_, _)
SubRuns(s, class) ==
    IF s = Str0 THEN Str0
    ELSE IF Head(s) \in class
    THEN <<"_">> \o SubRuns(SubSeq(s, 1 + RunLen(s, 1, class, TRUE), Len(s)), class)
    ELSE <<Head(s)>> \o SubRuns(Tail(s), class)

\* s.split(sep) for a separator of one character
RECURSIVE Split(_, _)
Split(s, sep) ==
    IF \A i \in 1..Len(s) : s[i] # sep THEN <<s>>
    ELSE <<SubSeq(s, 1, RunLen(s, 1, {sep}, FALSE))>>
         \o Split(SubSeq(s, RunLen(s, 1, {sep}, FALSE) + 2, Len(s)), sep)

\* zeros put in front of s up to the width, after a leading sign
RECURSIVE ZFillDigits(_, _)
ZFillDigits(s, width) == IF Len(s) >= width THEN s ELSE ZFillDigits(<<"0">> \o s, width)

\* s.zfill(width)
ZFill(s, width) ==
    IF s # Str0 /\ Head(s) \in {"+", "-"}
    THEN <<Head(s)>> \o ZFillDigits(Tail(s), width - 1)
    ELSE ZFillDigits(s, width)

\* lines 149-155: the time digits out of the raw time
TimeOfParts(parts) ==
    IF Len(parts) >= 2
    THEN ZFill(parts[1], 2) \o ZFill(parts[2], 2)
         \o (IF Len(parts) >= 3 THEN ZFill(parts[3], 2) ELSE <<"0", "0">>)
    ELSE <<"0", "0", "0", "0", "0", "0">>

\* lines 144-155
TimeDigits(summary) ==
    IF Strip(summary.time_norm) # Str0 THEN Filter(Strip(summary.time_norm), {":"}, FALSE)
    ELSE IF Strip(summary.time) # Str0 THEN TimeOfParts(Split(summary.time, ":"))
    ELSE <<"0", "0", "0", "0", "0", "0">>

\* lines 160-161
ShopOf(shop, invalid_filename_chars) ==
    SubRuns(IF shop # Str0 THEN shop ELSE <<"U", "N", "K", "N", "O", "W", "N">>,
            invalid_filename_chars)

\* lines 113-117: the date of date_iso, or None
DateOfIso(date_iso) == IF date_iso = Str0 THEN None ELSE FromIsoFormat(date_iso)

\* lines 122-123: the date of the raw date string when the first tier gave none
DateOfRaw(d, date) == IF d = None /\ Strip(date) # Str0 THEN _parse_date(date) ELSE d

\* lines 128-143: the day the source file was last modified, when the path
\* of its name exists in the working directory (mtime is None when it does
\* not), else the current day
DateOfFile(d, mtime, now) == IF d # None THEN d ELSE IF mtime # None THEN mtime ELSE now

\* the date of the identifier
BaseDate(summary, mtime, now) ==
    DateOfFile(DateOfRaw(DateOfIso(Strip(summary.date_iso)), summary.date), mtime, now)

\* mtime, now and pad_year are what the file system, the clock and the C
\* library give
build_base_name(result, invalid_filename_chars, mtime, now, pad_year) ==
    FormatYmd(BaseDate(result.summary, mtime, now), pad_year) \o <<"_">>
    \o TimeDigits(result.summary) \o <<"_">>
    \o ShopOf(Strip(result.summary.merchant_name), invalid_filename_chars)

(***************************************************************************)
(* Document store and ledger writer: receipt_store.py                      *)
(* A path is <<directory, file name>>; a set of files is a function from   *)
(* the paths that exist to what the files hold.                            *)
(***************************************************************************)
JsonSuffix == <<".", "j", "s", "o", "n">>

\* str(n) for an int
IntStr(n) == IF n < 0 THEN <<"-">> \o ZeroPad(0 - n, 1) ELSE ZeroPad(n, 1)

\* f"{stem}_{index}{suffix}"
IndexedName(stem, index, suffix) == stem \o <<"_">> \o IntStr(index) \o suffix

\* the loop of lines 351-357: the first index from `index` on whose
\* candidate does not exist
RECURSIVE FreeIndex(_, _, _, _, _)
FreeIndex(existing, dir, stem, suffix, index) ==
    IF <<dir, IndexedName(stem, index, suffix)>> \notin existing THEN index
    ELSE FreeIndex(existing, dir, stem, suffix, index + 1)

\* lines 346-357: the path that is written
FreePath(existing, dir, stem, suffix) ==
    IF <<dir, stem \o suffix>> \notin existing THEN <<dir, stem \o suffix>>
    ELSE <<dir, IndexedName(stem, FreeIndex(existing, dir, stem, suffix, 1), suffix)>>

\* open(path, "w") and a write of data
WriteFile(files, path, data) ==
    [q \in DOMAIN files \cup {path} |-> IF q = path THEN data ELSE files[q]]

Saved(files, path, data) == [files |-> WriteFile(files, path, data), path |-> path]

\* a save that always writes <stem>.json
_save_json_dict_in_place(files, dir, stem, data) ==
    Saved(files, <<dir, stem \o JsonSuffix>>, data)

\* out is <dir>/<stem>.json
_save_json_dict(files, dir, stem, data) ==
    Saved(files, FreePath(DOMAIN files, dir, stem, JsonSuffix), data)

_parse_year_from_base_name(base) ==
    IF Len(Strip(base)) >= 4 /\ AllDigits(SubSeq(Strip(base), 1, 4))
    THEN SubSeq(Strip(base), 1, 4)
    ELSE <<"u", "n", "k", "n", "o", "w", "n">>

YearOfBase(year_from_base, now) ==
    IF year_from_base # <<"u", "n", "k", "n", "o", "w", "n">> THEN year_from_base
    ELSE IntStr(now.y)

YearOfDate(d, base, now, pad_year) ==
    IF d # None THEN FormatYear(d.y, pad_year)
    ELSE YearOfBase(_parse_year_from_base_name(base), now)

_safe_parse_year(result, base, now, pad_year) ==
    YearOfDate(DateOfIso(Strip(result.summary.date_iso)), base, now, pad_year)

\* a tag whose value is never written
TagValue_none(tag, none) == none

\* item.tag.value if item.tag else <none>
TagValue(tag, none) == IF tag = "None" THEN none ELSE ReceiptTag[tag]

\* lines 307-329
JsonItem(item) ==
    [name |-> item.name, total_price |-> item.total_price_yen,
     unit_price |-> item.unit_price_yen, quantity |-> item.quantity,
     tag |-> TagValue(item.tag, None), tag_reason |-> item.tag_reason]

JsonData(result) ==
    [source_file |-> result.source_file,
     summary |-> [merchant_name |-> result.summary.merchant_name,
                  merchant_address |-> result.summary.merchant_address,
                  merchant_phone |-> result.summary.merchant_phone,
                  date |-> result.summary.date_iso,
                  time |-> result.summary.time_norm,
                  total |-> result.summary.total_yen,
                  tax |-> result.summary.tax_yen],
     items |-> [i \in DOMAIN result.items |-> JsonItem(result.items[i])]]

\* the document files after the call, and the path returned
save_result_json(files, result, base, now, pad_year) ==
    _save_json_dict(files, _safe_parse_year(result, base, now, pad_year), base,
                    JsonData(result))

ItemsCsv == <<"_", "i", "t", "e", "m", "s", ".", "c", "s", "v">>

\* <root>/<yyyy>/<yyyy><mm>_items.csv
CsvPath(yyyy, mm) == <<yyyy, yyyy \o mm \o ItemsCsv>>

\* re.match(r"(\d{4})(\d{2})\d{2}_", receipt_id)
IdHasDate(receipt_id) ==
    /\ Len(receipt_id) >= 9
    /\ AllDigits(SubSeq(receipt_id, 1, 8))
    /\ receipt_id[9] = "_"

CsvPathOfId(receipt_id, now, pad_year) ==
    IF IdHasDate(receipt_id)
    THEN CsvPath(SubSeq(receipt_id, 1, 4), SubSeq(receipt_id, 5, 6))
    ELSE CsvPath(FormatYear(now.y, pad_year), ZeroPad(now.m, 2))

CsvPathOfDate(d, receipt_id, now, pad_year) ==
    IF d # None THEN CsvPath(FormatYear(d.y, pad_year), ZeroPad(d.m, 2))
    ELSE CsvPathOfId(receipt_id, now, pad_year)

get_monthly_receipt_csv_path(result, receipt_id, now, pad_year) ==
    CsvPathOfDate(DateOfIso(Strip(result.summary.date_iso)), receipt_id, now, pad_year)

\* what csv.writer writes for a value: "" for None, str(v) for a number; the
\* text of a float is kept as the float
CsvCell(v) ==
    IF v = None THEN Str0
    ELSE IF "n" \in DOMAIN v THEN IntStr(v.n)
    ELSE v

\* lines 419-435: one row of the ledger
CsvRow(result, item, receipt_id, json_name) ==
    [receipt_id |-> receipt_id,
     date |-> result.summary.date_iso,
     time |-> result.summary.time_norm,
     merchant_name |-> result.summary.merchant_name,
     item_name |-> item.name,
     item_tag |-> TagValue(item.tag, Str0),
     item_tag_reason |-> item.tag_reason,
     total_price_yen |-> CsvCell(item.total_price_yen),
     unit_price_yen |-> CsvCell(item.unit_price_yen),
     quantity |-> CsvCell(item.quantity),
     source_file |-> result.source_file,
     json_file |-> json_name]

\* one row for the receipt: that of its first item
build_receipt_summary_csv_row_first_item(result, receipt_id, json_name) ==
    [i \in DOMAIN result.items \cap {1} |->
        CsvRow(result, result.items[i], receipt_id, json_name)]

build_receipt_summary_csv_row(result, receipt_id, json_name) ==
    [i \in DOMAIN result.items |-> CsvRow(result, result.items[i], receipt_id, json_name)]

RECEIPT_SUMMARY_CSV_HEADERS ==
    <<"receipt_id", "date", "time", "merchant_name", "item_name", "item_tag",
      "item_tag_reason", "total_price_yen", "unit_price_yen", "quantity",
      "source_file", "json_file">>

\* the lines of a ledger file
HeaderLine == [kind |-> "header", cells |-> RECEIPT_SUMMARY_CSV_HEADERS]
RowLine(row) == [kind |-> "row", cells |-> row]
RowLines(rows) == [i \in DOMAIN rows |-> RowLine(rows[i])]

\* an append that writes the header on every call
AppendLines_header_always(files, csv_path, lines) ==
    WriteFile(files, csv_path,
              (IF csv_path \in DOMAIN files THEN files[csv_path] ELSE << >>)
              \o <<HeaderLine>> \o lines)

\* an append that opens the file for writing: the header once, and the rows
\* of this call only
AppendLines_truncate(files, csv_path, lines) ==
    WriteFile(files, csv_path, <<HeaderLine>> \o lines)

\* lines 457-466: open(csv_path, "a"), the header when the file did not
\* exist, the rows
AppendLines(files, csv_path, lines) ==
    IF csv_path \in DOMAIN files
    THEN WriteFile(files, csv_path, files[csv_path] \o lines)
    ELSE WriteFile(files, csv_path, <<HeaderLine>> \o lines)

\* the ledger files after the call
append_monthly_receipt_item_csv(files, csv_path, rows) ==
    IF rows = << >> THEN files ELSE AppendLines(files, csv_path, RowLines(rows))

(***************************************************************************)
(* Aggregator: ReceiptManager._aggregate_monthly_csv                       *)
(***************************************************************************)
\* the digits of an int literal may be separated by single underscores
IsIntBody(s) ==
    /\ s # Str0
    /\ \A i \in 1..Len(s) : IsDigit(s[i]) \/ s[i] = "_"
    /\ IsDigit(s[1]) /\ IsDigit(s[Len(s)])
    /\ \A i \in 1..(Len(s) - 1) : ~(s[i] = "_" /\ s[i + 1] = "_")

IntOfBody(s) == IF IsIntBody(s) THEN PInt(IntOfDigits(Filter(s, {"_"}, FALSE))) ELSE None

IntOfSigned(s) ==
    IF s # Str0 /\ Head(s) = "-"
    THEN (IF IntOfBody(Tail(s)) = None THEN None ELSE PInt(0 - IntOfBody(Tail(s)).n))
    ELSE IF s # Str0 /\ Head(s) = "+" THEN IntOfBody(Tail(s))
    ELSE IntOfBody(s)

\* int(text) for a str: the int, or None for ValueError
IntOfText(text) == IntOfSigned(Strip(text))

\* the cell of a column in a line that csv.DictReader reads as a data row:
\* a header line that is not the first line of the file is such a row, and
\* its cells are the column names
CellOf(line, column) ==
    IF line.kind = "header" THEN <<column>> ELSE line.cells[column]

\* a row that replaces the total of its tag instead of adding to it
AddRow_last_wins(totals, line) ==
    IF line.kind = "header" \/ CellOf(line, "item_tag") = Str0
       \/ IntOfText(CellOf(line, "total_price_yen")) = None
    THEN totals
    ELSE [tag \in DOMAIN totals \cup {CellOf(line, "item_tag")} |->
            IF tag = CellOf(line, "item_tag")
            THEN IntOfText(CellOf(line, "total_price_yen")).n
            ELSE totals[tag]]

\* lines 770-784 for one row: totals after the row
AddRow(totals, line) ==
    IF CellOf(line, "item_tag") = Str0 \/ CellOf(line, "total_price_yen") = Str0
    THEN totals
    ELSE IF line.kind = "header" THEN totals
    ELSE IF IntOfText(CellOf(line, "total_price_yen")) = None THEN totals
    ELSE [tag \in DOMAIN totals \cup {CellOf(line, "item_tag")} |->
            IF tag = CellOf(line, "item_tag")
            THEN GetOrZero(totals, tag) + IntOfText(CellOf(line, "total_price_yen")).n
            ELSE totals[tag]]

RECURSIVE AddRows(_, _)
AddRows(totals, lines) ==
    IF lines = << >> THEN totals
    ELSE AddRows(AddRow(totals, Head(lines)), Tail(lines))

\* the first line of the file gives csv.DictReader its field names
DataLines(lines) == IF lines = << >> THEN << >> ELSE Tail(lines)

\* <output_csv_dir>/<year>/<year><month:02d>_items.csv
PeriodPath(year, month) == CsvPath(IntStr(year), ZeroPad(month, 2))

_aggregate_monthly_csv(csv_files, year, month) ==
    IF PeriodPath(year, month) \notin DOMAIN csv_files THEN << >>
    ELSE AddRows(<< >>, DataLines(csv_files[PeriodPath(year, month)]))

(***************************************************************************)
(* Pipeline: ReceiptManager.process_receipt                                *)
(* A world is the five directories: json and csv map paths to contents,    *)
(* input is the set of image names, processed and error are sets of paths. *)
(***************************************************************************)
\* the position of the dot that starts Path(name).suffix, or 0
SuffixStart(name, dots) ==
    IF dots = {} THEN 0
    ELSE IF SetMin({0 - i : i \in dots}) = 0 - Len(name) THEN 0
    ELSE IF SetMin({0 - i : i \in dots}) = 0 - 1 THEN 0
    ELSE 0 - SetMin({0 - i : i \in dots})

SuffixAt(name, i) == IF i = 0 THEN Str0 ELSE SubSeq(name, i, Len(name))

StemAt(name, i) == IF i = 0 THEN name ELSE SubSeq(name, 1, i - 1)

\* Path(name).suffix and Path(name).stem
Suffix(name) == SuffixAt(name, SuffixStart(name, {i \in 1..Len(name) : name[i] = "."}))

Stem(name) == StemAt(name, SuffixStart(name, {i \in 1..Len(name) : name[i] = "."}))

\* str.lower(), for the letters of the image names
Lower(s) ==
    [i \in DOMAIN s |->
        CASE s[i] = "J" -> "j" [] s[i] = "P" -> "p" [] s[i] = "G" -> "g"
          [] OTHER -> s[i]]

\* shutil.move(src, dst)
Moved(w, image, dir, dst) ==
    [w EXCEPT !.input = @ \ {image}, ![dir] = @ \cup {dst}]

\* move_to_error: nothing moves when the source is gone
move_to_error(w, image) ==
    IF image \notin w.input THEN w
    ELSE Moved(w, image, "error", FreePath(w.error, Str0, Stem(image), Suffix(image)))

move_to_processed(w, image, base) ==
    IF image \notin w.input THEN w
    ELSE Moved(w, image, "processed",
               FreePath(w.processed, _parse_year_from_base_name(base), base,
                        Lower(Suffix(image))))

\* analyze_and_parse: ocr is what receipt_ai.analyze_receipt does, raise or
\* return a raw extraction; every exception ends in a failed result
analyze_and_parse(image, ocr, pad_year) ==
    IF ocr.kind = "raise" THEN Raise("Exception", "analyze_receipt")
    ELSE parse_receipt_dict(ocr.raw, image, pad_year)

\* lines 218-236: fault names the file-system step that raises, if any; the
\* exception is caught by line 245 and nothing that follows the step runs
Appended(w, result, receipt_id, saved, image, fault, e) ==
    IF fault = "append" THEN w
    \* the append raises while it writes the second row: the header, if the
    \* file is new, and the first row are in the file
    ELSE IF fault = "partial"
    THEN [w EXCEPT !.csv = append_monthly_receipt_item_csv(w.csv,
            get_monthly_receipt_csv_path(result, receipt_id, e.now, e.pad_year),
            SubSeq(build_receipt_summary_csv_row(result, receipt_id, saved[2]), 1, 1))]
    ELSE IF fault = "move"
    THEN [w EXCEPT !.csv = append_monthly_receipt_item_csv(w.csv,
            get_monthly_receipt_csv_path(result, receipt_id, e.now, e.pad_year),
            build_receipt_summary_csv_row(result, receipt_id, saved[2]))]
    ELSE move_to_processed(
            [w EXCEPT !.csv = append_monthly_receipt_item_csv(w.csv,
                get_monthly_receipt_csv_path(result, receipt_id, e.now, e.pad_year),
                build_receipt_summary_csv_row(result, receipt_id, saved[2]))],
            image, receipt_id)

\* rows that name <id>.json whatever name the document was saved under
SavedThenAppended_unsuffixed(w, result, receipt_id, saved, image, fault, e) ==
    Appended([w EXCEPT !.json = saved.files], result, receipt_id,
             <<saved.path[1], receipt_id \o JsonSuffix>>, image, fault, e)

\* lines 200-236
SavedThenAppended(w, result, receipt_id, saved, image, fault, e) ==
    Appended([w EXCEPT !.json = saved.files], result, receipt_id, saved.path,
             image, fault, e)

\* lines 186-236
Stored(w, result, receipt_id, image, fault, e) ==
    IF fault = "save" THEN w
    ELSE SavedThenAppended(w, result, receipt_id,
            save_result_json(w.json, result, receipt_id, e.now, e.pad_year),
            image, fault, e)

\* lines 181-236
Identified(w, result, image, fault, e) ==
    Stored(w, result,
           build_base_name(result, INVALID_FILENAME_CHARS, e.mtime, e.now, e.pad_year),
           image, fault, e)

\* lines 176-236
Analyzed(w, analyzed, image, response, fault, e) ==
    IF analyzed.kind = "raise" THEN move_to_error(w, image)
    ELSE Identified(w, [analyzed.value EXCEPT
                           !.items = _judge_receipt_tags_by_ai(@, response)],
                    image, fault, e)

\* the world after process_receipt(src = <input>/<image>)
process_receipt(w, image, ocr, response, fault, e) ==
    Analyzed(w, analyze_and_parse(image, ocr, e.pad_year), image, response, fault, e)

\* ReceiptProcessResult.failed(reason), and the log record of the handler
\* that built it
Failed(reason, level, event, line) ==
    [ok |-> FALSE, error_reason |-> reason,
     log |-> [level |-> level, event |-> event, line |-> line]]

\* lines 174-177 and 283-285: analyze_and_parse catches every exception of
\* the analysis and of the parser, logs it as an error and returns a failed
\* result, which process_receipt returns as it is
AnalysisFailed(analyzed) ==
    Failed(analyzed.msg, "error", "RECEIPT ANALYZE FAILED", 284)

\* what process_receipt returns: lines 238, 245-247 (an exception of a
\* file-system step is an OSError, which line 240 does not catch) and 177
process_receipt_result(image, ocr, response, fault, e) ==
    IF analyze_and_parse(image, ocr, e.pad_year).kind = "raise"
    THEN AnalysisFailed(analyze_and_parse(image, ocr, e.pad_year))
    ELSE IF fault # "none"
    THEN Failed(fault, "error", "RECEIPT ANALYZE FAILED", 246)
    ELSE [ok |-> TRUE, error_reason |-> "",
          log |-> [level |-> "info", event |-> "RECEIPT PROCESS END", line |-> 237]]

(***************************************************************************)
(* Batch: main's loop over the receipt images (main.py)                    *)
(***************************************************************************)
RECEIPT_IMAGE_EXTS ==
    {<<".", "j", "p", "g">>, <<".", "j", "p", "e", "g">>, <<".", "p", "n", "g">>,
     <<".", "b", "m", "p">>, <<".", "t", "i", "f">>, <<".", "t", "i", "f", "f">>,
     <<".", "p", "d", "f">>, <<".", "h", "e", "i", "c">>, <<".", "h", "e", "i", "f">>}

\* ord(c) for the characters of the file names
NameOrd ==
    ("." :> 46) @@ ("G" :> 71) @@ ("J" :> 74) @@ ("P" :> 80) @@ ("Z" :> 90)
    @@ ("a" :> 97) @@ ("b" :> 98) @@ ("g" :> 103) @@ ("j" :> 106) @@ ("p" :> 112)
    @@ ("t" :> 116) @@ ("x" :> 120)

\* a < b for two file names, compared as Python compares str
RECURSIVE NameLess(_, _)
NameLess(a, b) ==
    IF b = Str0 THEN FALSE
    ELSE IF a = Str0 THEN TRUE
    ELSE IF Head(a) # Head(b) THEN NameOrd[Head(a)] < NameOrd[Head(b)]
    ELSE NameLess(Tail(a), Tail(b))

\* receipt_images.sort(key=lambda x: x.name)
RECURSIVE SortedByName(_)
SortedByName(names) ==
    IF names = {} THEN << >>
    ELSE <<CHOOSE n \in names : \A other \in names \ {n} : NameLess(n, other)>>
         \o SortedByName(names \ {CHOOSE n \in names :
                                    \A other \in names \ {n} : NameLess(n, other)})

\* the files of the input directory that load_receipt_image keeps
IsReceiptImage(name, receipt_image_exts) == Lower(Suffix(name)) \in receipt_image_exts

\* the files with another extension are moved to the error directory
RECURSIVE MoveAllToError(_, _)
MoveAllToError(w, names) ==
    IF names = {} THEN w
    ELSE MoveAllToError(move_to_error(w, CHOOSE n \in names : TRUE),
                        names \ {CHOOSE n \in names : TRUE})

\* load_receipt_image: the world it leaves and the list it returns
load_receipt_image(w, receipt_image_exts) ==
    [w |-> MoveAllToError(w, {n \in w.input : ~IsReceiptImage(n, receipt_image_exts)}),
     images |-> SortedByName({n \in w.input : IsReceiptImage(n, receipt_image_exts)})]

\* main before the loop: rcpt_mgr.reload_receipt_images()
Reloaded(loaded) == [pc |-> "loop", images |-> loaded.images, next |-> 1]

\* a loop that a failed receipt ends
AfterReceipt_stop_on_failure(b, proc) ==
    IF proc.ok THEN [b EXCEPT !.next = @ + 1] ELSE [b EXCEPT !.pc = "done"]

\* one turn of `for src in rcpt_mgr.get_receipt_images()`: whatever proc is,
\* the loop goes on with the next image
AfterReceipt(b, proc) == [b EXCEPT !.next = @ + 1]

(***************************************************************************)
(* The variables of a component that a specification does not exercise     *)
(***************************************************************************)
Idle == [kind |-> "idle"]
Pending == [kind |-> "pending"]

ParseIdle ==
    /\ p_raw = EmptyDict /\ p_source_file = Str0
    /\ p_pad_year = FALSE /\ p_outcome = Idle

TagIdle == tag_items = << >> /\ tag_response = Idle /\ tag_pc = "idle"

CmpIdle == m_current = << >> /\ m_prev = << >> /\ m_lines = Idle

IdIdle == rcpt1 = Idle /\ rcpt2 = Idle /\ env = Idle /\ base1 = Idle /\ base2 = Idle

\* the directories with the images given in the input directory
FsOf(images) ==
    [json |-> << >>, csv |-> << >>, input |-> images, processed |-> {}, error |-> {}]

StoreIdle == fs = FsOf({}) /\ calls = << >>

RunIdle == batch = Idle /\ procs = Idle

(***************************************************************************)
(* SpecParse: one call of parse_receipt_dict on a raw extraction drawn     *)
(* from RawDomain                                                          *)
(***************************************************************************)
\* the longest line-item array of a raw extraction
MaxElems == 2

Chars(n) == ZeroPad(n, 1)

\* a field that is absent from its dict
Absent == [k |-> "absent"]

\* the dict that holds the present ones among key |-> node
Fields(pairs) ==
    D([key \in {q[1] : q \in {r \in pairs : r[2] # Absent}} |->
        (CHOOSE q \in pairs : q[1] = key)[2]])

TotalNodes ==
    {Absent,
     N(2400),                                          \* 1200
     D("valueCurrency" :> D("amount" :> N(5))),        \* 2.5
     D("valueNumber" :> N(-3)),                        \* -1.5
     NaN, Inf,
     S(<<"x">>)}

ContentNodes ==
    {Absent,
     S(<<GOU, KEI, " ", YEN_SIGN, "1", ",", "2", "3", "4">>),
     S(<<"a", "b", "c">>),
     N(10)}

MerchantNodes == {Absent, S(<<" ">>), D("valueString" :> S(<<"A", "/", "B">>))}

DateNodes ==
    {Absent,
     D("valueDate" :> S(<<"2", "0", "2", "6", "/", "1", "/", "5">>)),
     S(<<"0", "9", "9", "9", "-", "1", "2", "-", "3", "1">>)}

TimeNodes == {Absent, S(<<"9", ":", "0", "5">>)}

\* line-item elements: a full item, an element with nothing usable (it is
\* dropped), an element with a price only, an element of the wrong type
ElemNodes ==
    {D("valueObject" :> D(("Description" :> D("valueString" :> S(<<"t", "e", "a">>)))
                          @@ ("TotalPrice" :> D("valueCurrency" :> D("amount" :> N(600))))
                          @@ ("Quantity" :> D("valueNumber" :> N(4)))
                          @@ ("UnitPrice" :> N(300)))),
     D("valueObject" :> D(("Description" :> S(<<" ">>)) @@ ("Quantity" :> N(2)))),
     D("value" :> D("Price" :> N(5))),
     N(7)}

ElemArrays == UNION {[1..n -> ElemNodes] : n \in 0..MaxElems}

\* the arrays that are also drawn inside each kind of wrapper
WrappedArrays == {a \in ElemArrays : Len(a) <= 1}

ItemsNodes ==
    {Absent, None, S(<<"z">>)}
    \cup {L(a) : a \in ElemArrays}
    \cup {D("valueArray" :> L(a)) : a \in WrappedArrays}
    \cup {D("value" :> L(a)) : a \in WrappedArrays}
    \cup {D("value" :> D("valueArray" :> L(a))) : a \in WrappedArrays}

\* containers of the wrong type on the way to the fields
BadShapes ==
    {D("documents" :> S(<<"a", "b">>)),
     D("documents" :> N(10)),
     D("documents" :> D("a" :> N(2))),
     D("documents" :> L(<<None>>)),
     D("documents" :> L(<<D("fields" :> N(10))>>)),
     D("documents" :> L(<<D("fields" :> L(<<N(2)>>))>>)),
     D("documents" :> L(<< >>)),
     D(("documents" :> L(<<EmptyDict>>)) @@ ("content" :> S(<<YEN_SIGN, "8", "0">>)))}

RawOf(total, content, merchant, date, time, items) ==
    Fields({<<"documents",
              L(<<D("fields" :> Fields({<<"Total", total>>,
                                        <<"MerchantName", merchant>>,
                                        <<"TransactionDate", date>>,
                                        <<"TransactionTime", time>>,
                                        <<"Items", items>>}))>>)>>,
            <<"content", content>>})

RawDomain ==
    BadShapes \cup
    {RawOf(total, content, merchant, date, time, items) :
        total \in TotalNodes, content \in ContentNodes, merchant \in MerchantNodes,
        date \in DateNodes, time \in TimeNodes, items \in ItemsNodes}

InitParse ==
    /\ p_raw \in RawDomain
    /\ p_source_file = <<"a", ".", "j", "p", "g">>
    /\ p_pad_year \in BOOLEAN
    /\ p_outcome = Pending
    /\ TagIdle /\ CmpIdle /\ IdIdle /\ StoreIdle /\ RunIdle

ParseReceiptDict ==
    /\ p_outcome = Pending
    /\ p_outcome' = parse_receipt_dict(p_raw, p_source_file, p_pad_year)
    /\ UNCHANGED <<p_raw, p_source_file, p_pad_year, tagVars, cmpVars, idVars, storeVars, runVars>>

NextParse == ParseReceiptDict

SpecParse == InitParse /\ [][NextParse]_vars

(***************************************************************************)
(* Properties of parse_receipt_dict                                        *)
(***************************************************************************)
ParseDone == p_outcome # Pending /\ p_outcome # Idle

\* the call got as far as the validity rule of line 71
ReachedValidityRule ==
    /\ ParseDone
    /\ FieldsOf(p_raw).kind = "return"
    /\ Normalize(p_raw, FieldsOf(p_raw).value, p_pad_year).kind = "return"

\* the summary and the items as they stand at line 71
AtValidityRule == Normalize(p_raw, FieldsOf(p_raw).value, p_pad_year).value

NoTotalNoItems ==
    /\ ReachedValidityRule
    /\ AtValidityRule.summary.total_yen = None
    /\ AtValidityRule.items = << >>

TotalNoItems ==
    /\ ReachedValidityRule
    /\ AtValidityRule.summary.total_yen # None
    /\ AtValidityRule.items = << >>

C2_PseudoItem ==
    TotalNoItems =>
        /\ p_outcome.kind = "return"
        /\ Len(p_outcome.value.items) = 1
        /\ p_outcome.value.items[1].name =
              (IF p_outcome.value.summary.merchant_name # Str0
               THEN p_outcome.value.summary.merchant_name
               ELSE <<"U", "N", "K", "N", "O", "W", "N">>)
        /\ p_outcome.value.items[1].total_price_yen = p_outcome.value.summary.total_yen
        /\ p_outcome.value.items[1].unit_price_yen = p_outcome.value.summary.total_yen
        /\ p_outcome.value.items[1].tag = "UNKNOWN"
        /\ p_outcome.value.items[1].tag_reason = S(Str0)

\* the total comes from the free text and the merchant name is missing
C2_Witness ==
    /\ TotalNoItems
    /\ p_outcome.kind = "return"
    /\ ~Has(FieldsOf(p_raw).value, "Total")
    /\ p_outcome.value.items[1].name = <<"U", "N", "K", "N", "O", "W", "N">>
    /\ p_outcome.value.items[1].total_price_yen = PInt(1234)

MaxItems == 2
MaxEntries == 3

ItemNames == {<<"a">>, <<"b">>}

\* items as _parse_items leaves them: tag UNKNOWN, no reason
ParsedItems == {NormalizedItem(name, FNum(200), None, None) : name \in ItemNames}

ItemLists == UNION {[1..n -> ParsedItems] : n \in 0..MaxItems}

\* the entries of a response: well-formed ones, a label that is not in the
\* table, a reason that is not a string, an entry that is not an object,
\* a name that no item has, values that cannot be looked up
EntryNodes ==
    {D(("name" :> S(<<"a">>)) @@ ("tag" :> S(<<"F", "o", "o", "d">>))
       @@ ("reason" :> S(<<"r">>))),
     D(("name" :> S(<<"b">>)) @@ ("tag" :> S(<<"B", "o", "g", "u", "s">>))),
     D(("name" :> S(<<"a">>)) @@ ("tag" :> S(<<"O", "t", "h", "e", "r">>))
       @@ ("reason" :> N(14))),
     N(7),
     D(("name" :> S(<<"c">>)) @@ ("tag" :> L(<< >>))),
     D(("name" :> S(<<"b">>)) @@ ("tag" :> L(<< >>))),
     EmptyDict,
     D(("name" :> L(<< >>)) @@ ("tag" :> S(<<"F", "o", "o", "d">>)))}

EntryLists == UNION {[1..n -> EntryNodes] : n \in 0..MaxEntries}

TagResponses ==
    {[kind |-> "raise"], [kind |-> "text"]}
    \cup {[kind |-> "json", value |-> v] :
            v \in {None, L(<< >>), S(<<"x">>), EmptyDict, D("items" :> None),
                   D("items" :> S(<<"a", "b">>))}}
    \cup {[kind |-> "json", value |-> D("items" :> L(entries))] : entries \in EntryLists}

InitTag ==
    /\ tag_items \in ItemLists
    /\ tag_response \in TagResponses
    /\ tag_pc = "start"
    /\ ParseIdle /\ CmpIdle /\ IdIdle /\ StoreIdle /\ RunIdle

JudgeReceiptTagsByAi ==
    /\ tag_pc = "start"
    /\ tag_items' = _judge_receipt_tags_by_ai(tag_items, tag_response)
    /\ tag_pc' = "done"
    /\ UNCHANGED <<tag_response, parseVars, cmpVars, idVars, storeVars, runVars>>

NextTag == JudgeReceiptTagsByAi

SpecTag == InitTag /\ [][NextTag]_vars

\* the response holds an items array whose length is not the number of items
CountMismatch ==
    /\ tag_response.kind = "json"
    /\ IsDict(tag_response.value)
    /\ IsList(Get(tag_response.value, "items"))
    /\ Len(Get(tag_response.value, "items").l) # Len(tag_items)

\* C3: when the items array of the tagging response has a length other than
\* the number of items, every item has the tag UNKNOWN and an empty reason
\* after _judge_receipt_tags_by_ai
C3_CountMismatch ==
    (tag_pc = "done" /\ CountMismatch) =>
        \A i \in 1..Len(tag_items) :
            /\ tag_items[i].tag = "UNKNOWN"
            /\ tag_items[i].tag_reason = S(Str0)

\* one entry too many, the first of which names an item and gives it a label
\* of the table
C3_Witness ==
    /\ tag_pc = "done"
    /\ CountMismatch
    /\ Len(tag_items) = 2
    /\ Len(Get(tag_response.value, "items").l) = 3
    /\ IsDict(Get(tag_response.value, "items").l[1])
    /\ ItemOfName(tag_items, GetOrEmpty(Get(tag_response.value, "items").l[1], "name")) # 0
    /\ TagOfLabel(GetOrEmpty(Get(tag_response.value, "items").l[1], "tag")) = "FOOD"

\* the entries of the response, when it holds an items array
EntriesOf(response) ==
    IF response.kind = "json" /\ IsDict(response.value)
       /\ IsList(Get(response.value, "items"))
    THEN Get(response.value, "items").l ELSE << >>

\* an entry on which the loop of lines 661-679 raises: it is not an object,
\* or its name cannot be a dict key, or it names an item and its label
\* cannot be a dict key
EntryRaises(items, entry) ==
    \/ ~IsDict(entry)
    \/ /\ IsDict(entry)
       /\ \/ ~IsHashable(GetOrEmpty(entry, "name"))
          \/ /\ ItemOfName(items, GetOrEmpty(entry, "name")) # 0
             /\ ~IsHashable(GetOrEmpty(entry, "tag"))

\* the failures of a tagging call, read off the response: the request
\* raised, the text is not JSON, the payload is not an object, it has no
\* items array, the counts differ, or an entry raises
TaggingFailure ==
    \/ tag_response.kind # "json"
    \/ ~IsDict(tag_response.value)
    \/ ~IsList(Get(tag_response.value, "items"))
    \/ CountMismatch
    \/ \E n \in 1..Len(EntriesOf(tag_response)) :
          EntryRaises(tag_items, EntriesOf(tag_response)[n])

\* C11: whatever the tagging response is, _judge_receipt_tags_by_ai returns
\* the items it was given, and when a failure occurred in the call, also
\* after earlier entries were applied, every item has the tag UNKNOWN and
\* an empty reason
C11_FailSafe ==
    [][JudgeReceiptTagsByAi =>
        /\ Len(tag_items') = Len(tag_items)
        /\ \A i \in 1..Len(tag_items) : tag_items'[i].name = tag_items[i].name
        /\ TaggingFailure =>
              \A i \in 1..Len(tag_items) :
                  /\ tag_items'[i].tag = "UNKNOWN"
                  /\ tag_items'[i].tag_reason = S(Str0)]_vars

\* two items and two entries: the first entry gives item "a" the label
\* Food and a reason, the second is not an object
C11_Witness ==
    /\ tag_pc = "done"
    /\ Len(tag_items) = 2
    /\ tag_items[1].name = <<"a">>
    /\ Len(EntriesOf(tag_response)) = 2
    /\ IsDict(EntriesOf(tag_response)[1])
    /\ GetOrEmpty(EntriesOf(tag_response)[1], "name") = S(<<"a">>)
    /\ TagOfLabel(GetOrEmpty(EntriesOf(tag_response)[1], "tag")) = "FOOD"
    /\ Truthy(GetOrEmpty(EntriesOf(tag_response)[1], "reason"))
    /\ ~IsDict(EntriesOf(tag_response)[2])

(***************************************************************************)
(* SpecCompare: one call of _build_monthly_comparison_lines on two totals  *)
(* maps as _aggregate_monthly_csv returns them                             *)
(***************************************************************************)
\* the largest sum of a category
MaxAmount == 2

\* the sums of a category: a ledger row holds int(round(price)) of an
\* extracted price, which is negative for a negative price, so a sum can be
\* below zero
Amounts == (0 - 1)..MaxAmount

Categories == {ReceiptTag["FOOD"], ReceiptTag["MEDICAL"], ReceiptTag["UNKNOWN"]}

TotalsMaps == UNION {[tags -> Amounts] : tags \in SUBSET Categories}

InitCompare ==
    /\ m_current \in TotalsMaps
    /\ m_prev \in TotalsMaps
    /\ m_lines = Pending
    /\ ParseIdle /\ TagIdle /\ IdIdle /\ StoreIdle /\ RunIdle

BuildMonthlyComparisonLines ==
    /\ m_lines = Pending
    /\ m_lines' = Return(_build_monthly_comparison_lines(m_current, m_prev))
    /\ UNCHANGED <<m_current, m_prev, parseVars, tagVars, idVars, storeVars, runVars>>

NextCompare == BuildMonthlyComparisonLines

SpecCompare == InitCompare /\ [][NextCompare]_vars

\* the categories that are not zero in both periods, in sorted order
NonZeroTags ==
    SelectSeq(Sorted(DOMAIN m_current \cup DOMAIN m_prev),
              LAMBDA tag : GetOrZero(m_current, tag) # 0 \/ GetOrZero(m_prev, tag) # 0)

\* the five cases as the claim words them
IsClaimedLine(line, tag, current, prev) ==
    /\ line.tag = _tag_to_en(tag)
    /\ \/ line.format = "NEW" /\ prev = 0 /\ current > 0 /\ line.amount = current
       \/ line.format = "DISAPPEARED" /\ current = 0 /\ prev > 0
       \/ line.format = "INCREASE" /\ current > prev /\ prev > 0
          /\ line.amount = current - prev
       \/ line.format = "DECREASE" /\ 0 < current /\ current < prev
          /\ line.amount = prev - current
       \/ line.format = "NO_CHANGE" /\ current = prev /\ current > 0
          /\ line.amount = current

\* C5: _build_monthly_comparison_lines emits, in sorted order of the
\* category, exactly one line for each category that is not zero in both
\* periods and none for the others; the line is "new" (previous = 0,
\* current > 0), "disappeared" (current = 0, previous > 0), "increased by
\* current - previous" (current > previous > 0), "decreased by previous -
\* current" (0 < current < previous) or "unchanged at the amount" (current =
\* previous > 0)
C5_ComparisonLines ==
    m_lines.kind = "return" =>
        /\ Len(m_lines.value) = Len(NonZeroTags)
        /\ \A i \in 1..Len(NonZeroTags) :
              IsClaimedLine(m_lines.value[i], NonZeroTags[i],
                            GetOrZero(m_current, NonZeroTags[i]),
                            GetOrZero(m_prev, NonZeroTags[i]))

(***************************************************************************)
(* SpecId: build_base_name for two receipts as the parser returns them     *)
(***************************************************************************)
\* the day of the run
Today == MkDate(2026, 11, 2)

IdDates == {MkDate(999, 12, 31), MkDate(1000, 1, 1), MkDate(2026, 1, 5)}

\* the raw date, time and merchant strings of a receipt
RawDates ==
    {Str0, <<"2", "0", "2", "6", "-", "0", "2", "-", "3", "0">>}
    \cup {FormatIsoDate(d, TRUE) : d \in IdDates}

RawTimes == {Str0, <<"9", ":", "0", "5">>, <<"a", ":", "b">>}

RawMerchants == {Str0, <<"A", "/", "B">>}

\* the result that parse_receipt_dict returns for these strings
ResultOf(date, time, merchant, pad_year) ==
    [source_file |-> <<"a", ".", "j", "p", "g">>,
     summary |-> Normalized([ReceiptSummary(EmptyDict) EXCEPT
                                !.date = date, !.time = time,
                                !.merchant_name = merchant], pad_year),
     items |-> <<NormalizedItem(<<"a">>, FNum(200), None, None)>>]

Results(pad_year) ==
    {ResultOf(date, time, merchant, pad_year) :
        date \in RawDates, time \in RawTimes, merchant \in RawMerchants}

\* the source file's day of last change when its name resolves from the
\* working directory, the current day, and the C library's %Y
Envs ==
    [mtime : {None, MkDate(2025, 12, 31)}, now : {Today},
     pad_year : BOOLEAN]

InitId ==
    /\ env \in Envs
    /\ rcpt1 \in Results(env.pad_year)
    /\ rcpt2 \in Results(env.pad_year)
    /\ base1 = Pending /\ base2 = Pending
    /\ ParseIdle /\ TagIdle /\ CmpIdle /\ StoreIdle /\ RunIdle

BuildBaseName1 ==
    /\ base1 = Pending
    /\ base1' = Return(build_base_name(rcpt1, INVALID_FILENAME_CHARS,
                                       env.mtime, env.now, env.pad_year))
    /\ UNCHANGED <<rcpt1, rcpt2, env, base2, parseVars, tagVars, cmpVars, storeVars, runVars>>

BuildBaseName2 ==
    /\ base2 = Pending
    /\ base2' = Return(build_base_name(rcpt2, INVALID_FILENAME_CHARS,
                                       env.mtime, env.now, env.pad_year))
    /\ UNCHANGED <<rcpt1, rcpt2, env, base1, parseVars, tagVars, cmpVars, storeVars, runVars>>

NextId == BuildBaseName1 \/ BuildBaseName2

SpecId == InitId /\ [][NextId]_vars

\* the code points of the characters that the comparison of two identifiers
\* with different dates can reach
Ord ==
    [c \in Digits |-> 48 + DigitVal(c)] @@ ("_" :> 95)

\* a < b for two str, compared by code point
RECURSIVE IdLess(_, _)
IdLess(a, b) ==
    IF b = Str0 THEN FALSE
    ELSE IF a = Str0 THEN TRUE
    ELSE IF Head(a) # Head(b) THEN Ord[Head(a)] < Ord[Head(b)]
    ELSE IdLess(Tail(a), Tail(b))

\* the normalized date of the first receipt is an earlier day than that of
\* the second
NormalizedDateLess ==
    \E d1 \in IdDates, d2 \in IdDates :
        /\ rcpt1.summary.date_iso = FormatIsoDate(d1, env.pad_year)
        /\ rcpt2.summary.date_iso = FormatIsoDate(d2, env.pad_year)
        /\ DateLess(d1, d2)

\* C6: of two receipts of the same merchant whose normalized dates are
\* d1 < d2, the first gets the lexicographically smaller identifier from
\* build_base_name, whatever their times are
C6_Monotone ==
    (/\ base1.kind = "return" /\ base2.kind = "return"
     /\ rcpt1.summary.merchant_name = rcpt2.summary.merchant_name
     /\ NormalizedDateLess)
    => IdLess(base1.value, base2.value)

(***************************************************************************)
(* SpecStore: calls of save_result_json and append_monthly_receipt_item_csv *)
(* by one process, in any order, for results as the parser returns them    *)
(***************************************************************************)
\* the most calls of one run
MaxCalls == 3

\* two merchants of which one is the other followed by "_1", two source
\* files, and a receipt without a date
StoreResults ==
    {[ResultOf(FormatIsoDate(MkDate(2026, 1, 5), TRUE), Str0, merchant, FALSE)
        EXCEPT !.source_file = <<file, ".", "j", "p", "g">>] :
        merchant \in {<<"A">>, <<"A", "_", "1">>}, file \in {"a", "b"}}
    \cup {ResultOf(Str0, Str0, <<"A">>, FALSE)}

BaseOf(result) == build_base_name(result, INVALID_FILENAME_CHARS, None, Today, FALSE)

InitStore ==
    /\ fs = FsOf({})
    /\ calls = << >>
    /\ RunIdle
    /\ ParseIdle /\ TagIdle /\ CmpIdle /\ IdIdle

SaveResultJson(result) ==
    /\ Len(calls) < MaxCalls
    /\ fs' = [fs EXCEPT !.json = save_result_json(@, result, BaseOf(result), Today, FALSE).files]
    /\ calls' = Append(calls,
          [op |-> "save_result_json",
           dir |-> _safe_parse_year(result, BaseOf(result), Today, FALSE),
           stem |-> BaseOf(result),
           data |-> JsonData(result),
           existed |-> DOMAIN fs.json,
           path |-> save_result_json(fs.json, result, BaseOf(result), Today, FALSE).path])
    /\ UNCHANGED <<parseVars, tagVars, cmpVars, idVars, runVars>>

\* rows is the rows of the result, or no row at all
AppendMonthlyReceiptItemCsv(result, rows) ==
    /\ Len(calls) < MaxCalls
    /\ fs' = [fs EXCEPT !.csv = append_monthly_receipt_item_csv(@,
          get_monthly_receipt_csv_path(result, BaseOf(result), Today, FALSE), rows)]
    /\ calls' = Append(calls,
          [op |-> "append_monthly_receipt_item_csv",
           path |-> get_monthly_receipt_csv_path(result, BaseOf(result), Today, FALSE),
           rows |-> rows,
           before |-> fs.csv,
           after |-> append_monthly_receipt_item_csv(fs.csv,
              get_monthly_receipt_csv_path(result, BaseOf(result), Today, FALSE), rows)])
    /\ UNCHANGED <<parseVars, tagVars, cmpVars, idVars, runVars>>

NextStore ==
    \/ \E result \in StoreResults : SaveResultJson(result)
    \/ \E result \in StoreResults :
          \E rows \in {<< >>, build_receipt_summary_csv_row(result, BaseOf(result),
                                                           BaseOf(result) \o JsonSuffix)} :
              AppendMonthlyReceiptItemCsv(result, rows)

SpecStore == InitStore /\ [][NextStore]_vars

Saves == {i \in 1..Len(calls) : calls[i].op = "save_result_json"}

Appends == {i \in 1..Len(calls) : calls[i].op = "append_monthly_receipt_item_csv"}

\* the call landed at <stem>.json when that did not exist, else at
\* <stem>_k.json for the smallest k >= 1 that did not exist
LandedAtFirstFree(c) ==
    IF <<c.dir, c.stem \o JsonSuffix>> \notin c.existed
    THEN c.path = <<c.dir, c.stem \o JsonSuffix>>
    ELSE \E k \in 1..Len(calls) :
            /\ c.path = <<c.dir, IndexedName(c.stem, k, JsonSuffix)>>
            /\ \A j \in 1..(k - 1) :
                  <<c.dir, IndexedName(c.stem, j, JsonSuffix)>> \in c.existed

\* C4: no save_result_json call overwrites a document: every call wrote a
\* path that did not exist, <id>.json or else <id>_k.json for the smallest
\* k >= 1 that did not exist, and every document written so far still holds
\* what its call wrote
C4_NoOverwrite ==
    \A i \in Saves :
        /\ calls[i].path \notin calls[i].existed
        /\ LandedAtFirstFree(calls[i])
        /\ calls[i].path \in DOMAIN fs.json
        /\ fs.json[calls[i].path] = calls[i].data

\* the second write for an id landed at <id>_1.json, and a later write for
\* the id "<id>_1" found that name taken
C4_Witness ==
    \E i, j, k \in Saves :
        /\ i < j /\ j < k
        /\ calls[i].stem = calls[j].stem
        /\ calls[i].data # calls[j].data
        /\ calls[j].path = <<calls[j].dir, IndexedName(calls[j].stem, 1, JsonSuffix)>>
        /\ calls[k].stem \o JsonSuffix = calls[j].path[2]
        /\ calls[k].path = <<calls[k].dir, IndexedName(calls[k].stem, 1, JsonSuffix)>>

HeaderCount(lines) == Cardinality({n \in 1..Len(lines) : lines[n].kind = "header"})

\* C8: after any sequence of append_monthly_receipt_item_csv calls of one
\* writer, every ledger file holds the header row exactly once, as its first
\* row; a call with no rows writes nothing and does not create the file
C8_HeaderOnce ==
    /\ \A path \in DOMAIN fs.csv :
          /\ fs.csv[path] # << >>
          /\ fs.csv[path][1] = HeaderLine
          /\ HeaderCount(fs.csv[path]) = 1
    /\ \A i \in Appends :
          calls[i].rows = << >> => calls[i].after = calls[i].before

\* a ledger file that two calls appended rows to, after a call with no rows
\* that found it missing
C8_Witness ==
    \E i, j, k \in Appends :
        /\ i < j /\ j < k
        /\ calls[i].rows = << >> /\ calls[i].path \notin DOMAIN calls[i].before
        /\ calls[j].path = calls[i].path /\ calls[j].rows # << >>
        /\ calls[k].path = calls[i].path /\ calls[k].rows # << >>
        /\ Len(fs.csv[calls[i].path]) = 1 + Len(calls[j].rows) + Len(calls[k].rows)

(***************************************************************************)
(* SpecPipeline: process_receipt on the images of the input directory, one *)
(* after the other, with collaborators that may fail                       *)
(***************************************************************************)
\* the most process_receipt calls of one behaviour
MaxReceipts == 2

Images == {<<"a", ".", "j", "p", "g">>, <<"b", ".", "J", "P", "G">>}

\* what the OCR collaborator does: it fails, or returns an extraction that is
\* not a receipt, one with a total only, one with two items of which the
\* second has a negative price
OcrOutcomes ==
    {[kind |-> "raise"],
     [kind |-> "return", raw |-> D("documents" :> L(<<EmptyDict>>))],
     [kind |-> "return", raw |->
        RawOf(N(2400), Absent, S(<<"a">>), Absent, Absent, Absent)],
     [kind |-> "return", raw |->
        RawOf(N(1000), Absent, S(<<"A", "/", "B">>),
              D("valueDate" :> S(<<"2", "0", "2", "6", "/", "1", "/", "5">>)),
              S(<<"9", ":", "0", "5">>),
              L(<<D("valueObject" :> D(("Description" :> S(<<"a">>))
                                       @@ ("TotalPrice" :> N(600)))),
                  D("valueObject" :> D(("Description" :> S(<<"b">>))
                                       @@ ("TotalPrice" :> N(-3))))>>))]}

\* what the tagging collaborator answers: for two items, with a label of the
\* table and one that is not in it, or for one item
PipelineResponses ==
    {[kind |-> "json", value |-> D("items" :> L(<<
        D(("name" :> S(<<"a">>)) @@ ("tag" :> S(<<"F", "o", "o", "d">>))
          @@ ("reason" :> S(<<"r">>))),
        D(("name" :> S(<<"b">>)) @@ ("tag" :> S(<<"B", "o", "g", "u", "s">>))
          @@ ("reason" :> S(<<"r">>)))>>))],
     [kind |-> "json", value |-> D("items" :> L(<<
        D(("name" :> S(<<"a">>)) @@ ("tag" :> S(<<"O", "t", "h", "e", "r">>)))>>))]}

\* the file-system step of process_receipt that raises, if any
Faults == {"none", "save", "append", "partial", "move"}

\* the runs of the collaborators during one call: when the analysis fails,
\* neither the tagging collaborator nor the file-system steps are reached
Runs ==
    {r \in [ocr : OcrOutcomes, response : PipelineResponses, fault : Faults] :
        analyze_and_parse(Str0, r.ocr, FALSE).kind = "raise" =>
            /\ r.fault = "none"
            /\ r.response = CHOOSE response \in PipelineResponses : TRUE}

\* the source file is a bare name, which resolves from the working directory
\* and not from the input directory
InitPipeline ==
    /\ fs = FsOf(Images)
    /\ calls = << >>
    /\ RunIdle
    /\ env \in {e \in Envs : e.mtime = None}
    /\ rcpt1 = Idle /\ rcpt2 = Idle /\ base1 = Idle /\ base2 = Idle
    /\ ParseIdle /\ TagIdle /\ CmpIdle

ProcessReceipt(image, run) ==
    /\ Len(calls) < MaxReceipts
    /\ image \in fs.input
    /\ fs' = process_receipt(fs, image, run.ocr, run.response, run.fault, env)
    /\ calls' = Append(calls, [op |-> "process_receipt", image |-> image, run |-> run,
                                result |-> process_receipt_result(image, run.ocr,
                                              run.response, run.fault, env)])
    /\ UNCHANGED <<parseVars, tagVars, cmpVars, idVars, runVars>>

NextPipeline == \E image \in Images, run \in Runs : ProcessReceipt(image, run)

SpecPipeline == InitPipeline /\ [][NextPipeline]_vars

\* the rows of every ledger file
LedgerRows ==
    UNION {{fs.csv[path][n].cells :
                n \in {m \in 1..Len(fs.csv[path]) : fs.csv[path][m].kind = "row"}} :
           path \in DOMAIN fs.csv}

\* C9: the category column of every row of every ledger file is one of the
\* 14 values of ReceiptTag; a label that is not in the label table is stored
\* as the value of UNKNOWN, not as the label, as an empty cell or as null
C9_ClosedCategories ==
    \A row \in LedgerRows : row.item_tag \in ReceiptTagValues

\* a receipt whose two items were answered with a label of the table and
\* with one that is not in it: its rows hold FOOD and UNKNOWN
C9_Witness ==
    \E r1 \in LedgerRows, r2 \in LedgerRows :
        /\ r1.receipt_id = r2.receipt_id
        /\ r1.item_name = <<"a">> /\ r1.item_tag = ReceiptTag["FOOD"]
        /\ r2.item_name = <<"b">> /\ r2.item_tag = ReceiptTag["UNKNOWN"]
        /\ r2.item_tag_reason = S(<<"r">>)

\* the lines of a file are the first lines of another
IsPrefix(a, b) == Len(a) <= Len(b) /\ SubSeq(b, 1, Len(a)) = a

\* the source files of the rows of a ledger file
SourcesOf(lines) ==
    {lines[n].cells.source_file : n \in {m \in 1..Len(lines) : lines[m].kind = "row"}}

\* C12: a call of process_receipt, whether it succeeds or fails at the
\* analysis, at the save, before or in the middle of the append or at the
\* move, leaves every document that existed as it was, and the lines that
\* a ledger file held are the first lines of that file after the call
C12_AppendOnly ==
    [][/\ \A path \in DOMAIN fs.json :
            path \in DOMAIN fs'.json /\ fs'.json[path] = fs.json[path]
       /\ \A path \in DOMAIN fs.csv :
            path \in DOMAIN fs'.csv /\ IsPrefix(fs.csv[path], fs'.csv[path])]_vars

\* the first receipt was stored, the second failed in the middle of its
\* append to the same ledger file, which holds rows of both
C12_Witness ==
    /\ Len(calls) = 2
    /\ calls[1].result.ok
    /\ calls[2].run.fault = "partial" /\ ~calls[2].result.ok
    /\ \E path \in DOMAIN fs.csv :
          /\ SourcesOf(fs.csv[path]) = Images
          /\ fs.csv[path][1] = HeaderLine
          /\ fs.csv[path][2].cells.source_file = calls[1].image

\* the last call of process_receipt
LastCall == calls[Len(calls)]

\* a collaborator failed in the call: the OCR analysis raised, or a
\* file-system step did
CollaboratorFailed(c) ==
    \/ c.run.ocr.kind = "raise"
    \/ /\ analyze_and_parse(c.image, c.run.ocr, env.pad_year).kind = "return"
       /\ c.run.fault # "none"

\* C13: when process_receipt returns a failed result because a collaborator
\* failed (the OCR analysis, the JSON save, the CSV append, the move to
\* processed), the source file is in the error directory and no longer in
\* the input directory
C13_RoutedToError ==
    [][(calls' # calls /\ ~LastCall'.result.ok /\ CollaboratorFailed(LastCall'))
        => /\ LastCall'.image \notin fs'.input
           /\ fs'.error # fs.error]_vars

\* normalization rejects the extraction of the call as not a receipt
RejectedAsNotAReceipt(c) ==
    /\ c.run.ocr.kind = "return"
    /\ parse_receipt_dict(c.run.ocr.raw, c.image, env.pad_year)
       = Raise("ValueError", "NOT A RECEIPT")

\* C14: a not-a-receipt rejection leaves process_receipt through the skip
\* path, the ValueError handler that logs "RECEIPT SKIPPED" at info level,
\* not through an error log, and no document and no ledger row is written
C14_SkipPath ==
    [][(calls' # calls /\ RejectedAsNotAReceipt(LastCall'))
        => /\ LastCall'.result.log.level = "info"
           /\ LastCall'.result.log.event = "RECEIPT SKIPPED"
           /\ fs'.json = fs.json /\ fs'.csv = fs.csv]_vars

(***************************************************************************)
(* SpecBatch: one run of main over the files of the input directory; the   *)
(* user may interrupt it at any point                                      *)
(***************************************************************************)
BatchFiles ==
    Images \cup {<<"Z", ".", "j", "p", "g">>, <<"a", ".", "t", "x", "t">>}

\* the runs of the collaborators in a batch: every OCR outcome, and a JSON
\* save that works or fails
BatchRuns ==
    {r \in Runs : /\ r.fault \in {"none", "save"}
                  /\ r.response = CHOOSE response \in PipelineResponses : TRUE}

InitBatch ==
    /\ fs \in {FsOf(files) : files \in SUBSET BatchFiles}
    /\ calls = << >>
    /\ batch = [pc |-> "start", images |-> << >>, next |-> 1]
    /\ procs = Idle
    /\ env \in {e \in Envs : e.mtime = None}
    /\ rcpt1 = Idle /\ rcpt2 = Idle /\ base1 = Idle /\ base2 = Idle
    /\ ParseIdle /\ TagIdle /\ CmpIdle

MainReload ==
    /\ batch.pc = "start"
    /\ fs' = load_receipt_image(fs, RECEIPT_IMAGE_EXTS).w
    /\ batch' = Reloaded(load_receipt_image(fs, RECEIPT_IMAGE_EXTS))
    /\ UNCHANGED <<calls, procs, parseVars, tagVars, cmpVars, idVars>>

MainProcessReceipt(run) ==
    /\ batch.pc = "loop" /\ batch.next <= Len(batch.images)
    /\ fs' = process_receipt(fs, batch.images[batch.next], run.ocr, run.response,
                             run.fault, env)
    /\ calls' = Append(calls, [op |-> "process_receipt",
                               image |-> batch.images[batch.next], run |-> run,
                               result |-> process_receipt_result(
                                   batch.images[batch.next], run.ocr, run.response,
                                   run.fault, env)])
    /\ batch' = AfterReceipt(batch, process_receipt_result(
                     batch.images[batch.next], run.ocr, run.response, run.fault, env))
    /\ UNCHANGED <<procs, parseVars, tagVars, cmpVars, idVars>>

MainLoop == \E run \in BatchRuns : MainProcessReceipt(run)

MainEnd ==
    /\ batch.pc = "loop" /\ batch.next > Len(batch.images)
    /\ batch' = [batch EXCEPT !.pc = "done"]
    /\ UNCHANGED <<fs, calls, procs, parseVars, tagVars, cmpVars, idVars>>

\* KeyboardInterrupt
MainInterrupt ==
    /\ batch.pc \in {"start", "loop"}
    /\ batch' = [batch EXCEPT !.pc = "interrupted"]
    /\ UNCHANGED <<fs, calls, procs, parseVars, tagVars, cmpVars, idVars>>

NextBatch == MainReload \/ MainLoop \/ MainEnd \/ MainInterrupt

\* main is sequential code: it takes its next step unless it is interrupted
SpecBatch ==
    /\ InitBatch /\ [][NextBatch]_vars
    /\ WF_vars(MainReload) /\ WF_vars(MainLoop) /\ WF_vars(MainEnd)

\* the images passed to process_receipt so far, in the order of the calls
ProcessedImages == [i \in 1..Len(calls) |-> calls[i].image]

\* C15: in a run of main the images passed to process_receipt are at every
\* moment the first ones of the name-sorted list, each once and in that
\* order, and unless the user interrupts the run the loop ends having
\* passed every image of the list, whatever failed on the way
C15_EveryReceiptOnce ==
    /\ [](ProcessedImages = SubSeq(batch.images, 1, batch.next - 1))
    /\ <>(\/ batch.pc = "interrupted"
          \/ batch.pc = "done" /\ ProcessedImages = batch.images)

\* three images; the analysis of the first failed, the save of the second
\* failed, and the third was processed
C15_Witness ==
    /\ batch.pc = "done"
    /\ Len(batch.images) = 3
    /\ NameLess(batch.images[1], batch.images[2])
    /\ NameLess(batch.images[2], batch.images[3])
    /\ Len(calls) = 3
    /\ calls[1].run.ocr.kind = "raise" /\ ~calls[1].result.ok
    /\ calls[2].run.fault = "save" /\ ~calls[2].result.ok
    /\ calls[3].result.ok

(***************************************************************************)
(* SpecRace: two processes, each in one call of _save_json_dict or of      *)
(* append_monthly_receipt_item_csv for a receipt of the same identifier;   *)
(* the steps of a call are its file-system operations, which interleave    *)
(***************************************************************************)
Procs == {1, 2}

\* two receipts of one merchant and one date, read from two images
RaceResults == {r \in StoreResults : BaseOf(r) = BaseOf(CHOOSE q \in StoreResults :
                                                          q.summary.date_iso # Str0)}

\* the store before the two calls: empty, or holding the document and the
\* ledger rows of an earlier receipt of the same identifier
RaceStores ==
    {FsOf({})}
    \cup {[FsOf({}) EXCEPT
             !.json = save_result_json(<< >>, r, BaseOf(r), Today, FALSE).files,
             !.csv = append_monthly_receipt_item_csv(<< >>,
                        get_monthly_receipt_csv_path(r, BaseOf(r), Today, FALSE),
                        build_receipt_summary_csv_row(r, BaseOf(r),
                            BaseOf(r) \o JsonSuffix))] : r \in RaceResults}

\* a process about to make the call `op` for `result`
ProcOf(op, result) ==
    [op |-> op, pc |-> "start",
     dir |-> _safe_parse_year(result, BaseOf(result), Today, FALSE),
     stem |-> BaseOf(result),
     data |-> JsonData(result),
     csv_path |-> get_monthly_receipt_csv_path(result, BaseOf(result), Today, FALSE),
     rows |-> build_receipt_summary_csv_row(result, BaseOf(result),
                                            BaseOf(result) \o JsonSuffix),
     file_exists |-> FALSE, index |-> 0, path |-> << >>]

InitRace ==
    /\ fs \in RaceStores
    /\ calls = << >>
    /\ batch = Idle
    /\ procs \in [Procs -> {ProcOf(op, r) : op \in {"save", "append"}, r \in RaceResults}]
    /\ ParseIdle /\ TagIdle /\ CmpIdle /\ IdIdle

\* out, and the candidate of the current index
OutOf(pr) == <<pr.dir, pr.stem \o JsonSuffix>>
CandidateOf(pr) == <<pr.dir, IndexedName(pr.stem, pr.index, JsonSuffix)>>

\* _save_json_dict line 345: out.exists()
SaveCheck(p) ==
    /\ procs[p].op = "save" /\ procs[p].pc = "start"
    /\ procs' = [procs EXCEPT ![p] =
          IF OutOf(@) \notin DOMAIN fs.json
          THEN [@ EXCEPT !.pc = "write", !.path = OutOf(procs[p])]
          ELSE [@ EXCEPT !.pc = "probe", !.index = 1]]
    /\ UNCHANGED <<fs, calls, batch, parseVars, tagVars, cmpVars, idVars>>

\* lines 351-357: candidate.exists() for the current index
SaveProbe(p) ==
    /\ procs[p].op = "save" /\ procs[p].pc = "probe"
    /\ procs' = [procs EXCEPT ![p] =
          IF CandidateOf(@) \notin DOMAIN fs.json
          THEN [@ EXCEPT !.pc = "write", !.path = CandidateOf(procs[p])]
          ELSE [@ EXCEPT !.index = @ + 1]]
    /\ UNCHANGED <<fs, calls, batch, parseVars, tagVars, cmpVars, idVars>>

\* lines 346-347 and 354-355: open(path, "w") and json.dump
SaveWrite(p) ==
    /\ procs[p].op = "save" /\ procs[p].pc = "write"
    /\ fs' = [fs EXCEPT !.json = WriteFile(@, procs[p].path, procs[p].data)]
    /\ procs' = [procs EXCEPT ![p].pc = "done"]
    /\ UNCHANGED <<calls, batch, parseVars, tagVars, cmpVars, idVars>>

\* append_monthly_receipt_item_csv line 458: file_exists = csv_path.exists()
AppendCheck(p) ==
    /\ procs[p].op = "append" /\ procs[p].pc = "start"
    /\ procs' = [procs EXCEPT ![p].file_exists = procs[p].csv_path \in DOMAIN fs.csv,
                              ![p].pc = "open"]
    /\ UNCHANGED <<fs, calls, batch, parseVars, tagVars, cmpVars, idVars>>

\* line 460: open(csv_path, "a") creates the file when it is not there
AppendOpen(p) ==
    /\ procs[p].op = "append" /\ procs[p].pc = "open"
    /\ fs' = [fs EXCEPT !.csv =
                 IF procs[p].csv_path \in DOMAIN @ THEN @
                 ELSE WriteFile(@, procs[p].csv_path, << >>)]
    /\ procs' = [procs EXCEPT ![p].pc = "write"]
    /\ UNCHANGED <<calls, batch, parseVars, tagVars, cmpVars, idVars>>

\* lines 461-466 and the close of the file: the header, when the file did
\* not exist at line 458, and the rows go to the end of the file in one
\* write (the text of one receipt is smaller than the buffer of the file)
AppendFlush(p) ==
    /\ procs[p].op = "append" /\ procs[p].pc = "write"
    /\ fs' = [fs EXCEPT !.csv[procs[p].csv_path] =
                 @ \o (IF procs[p].file_exists THEN << >> ELSE <<HeaderLine>>)
                   \o RowLines(procs[p].rows)]
    /\ procs' = [procs EXCEPT ![p].pc = "done"]
    /\ UNCHANGED <<calls, batch, parseVars, tagVars, cmpVars, idVars>>

NextRace ==
    \E p \in Procs :
        \/ SaveCheck(p) \/ SaveProbe(p) \/ SaveWrite(p)
        \/ AppendCheck(p) \/ AppendOpen(p) \/ AppendFlush(p)

SpecRace == InitRace /\ [][NextRace]_vars

BothDone(op) == \A p \in Procs : procs[p].op = op /\ procs[p].pc = "done"

\* C16: after two processes ran append_monthly_receipt_item_csv on the
\* same monthly ledger file, in any interleaving, the file has the header
\* exactly once and every other line is a whole row of one of the writers
\* or a row the file held before
C16_ConcurrentAppend ==
    (BothDone("append") /\ procs[1].csv_path = procs[2].csv_path) =>
        /\ HeaderCount(fs.csv[procs[1].csv_path]) = 1
        /\ \A n \in 1..Len(fs.csv[procs[1].csv_path]) :
              fs.csv[procs[1].csv_path][n].kind \in {"header", "row"}

\* C17: after two processes ran _save_json_dict for the same identifier,
\* in any interleaving of their exists checks and their writes, they wrote
\* two different files and each file holds what its process wrote
C17_ConcurrentSave ==
    (BothDone("save") /\ OutOf(procs[1]) = OutOf(procs[2])) =>
        /\ procs[1].path # procs[2].path
        /\ \A p \in Procs : fs.json[procs[p].path] = procs[p].data

(***************************************************************************)
(* SpecAggregate: one call of _aggregate_monthly_csv on a ledger whose     *)
(* rows may have an empty tag, an empty total, a total that is no integer, *)
(* a negative total, and a header line repeated among the rows; or on a    *)
(* month that has no ledger                                                *)
(***************************************************************************)
\* the most data lines of a ledger
MaxRows == 3

AggTags == {Str0, ReceiptTag["FOOD"], ReceiptTag["UNKNOWN"]}

AggTotals ==
    {Str0, <<"0">>, <<"1", "2">>, <<"-", "3">>, <<" ", "5", " ">>,
     <<"1", ".", "5">>, <<"a", "b", "c">>}

AggRow(tag, total) ==
    [receipt_id |-> <<"r">>, date |-> Str0, time |-> Str0, merchant_name |-> Str0,
     item_name |-> <<"x">>, item_tag |-> tag, item_tag_reason |-> Str0,
     total_price_yen |-> total, unit_price_yen |-> Str0, quantity |-> Str0,
     source_file |-> Str0, json_file |-> Str0]

AggLines == {HeaderLine} \cup {RowLine(AggRow(tag, total)) : tag \in AggTags, total \in AggTotals}

AggLedgers == UNION {[1..n -> AggLines] : n \in 0..MaxRows}

\* the months asked for: the ledger is the one of January 2026
AggMonths == {1, 2}

InitAggregate ==
    /\ \E lines \in AggLedgers :
          fs = [FsOf({}) EXCEPT !.csv = WriteFile(<< >>, PeriodPath(2026, 1), <<HeaderLine>> \o lines)]
    /\ calls = << >>
    /\ RunIdle
    /\ ParseIdle /\ TagIdle /\ CmpIdle /\ IdIdle

AggregateMonthlyCsv(year, month) ==
    /\ calls = << >>
    /\ calls' = <<[op |-> "_aggregate_monthly_csv", year |-> year, month |-> month,
                   totals |-> _aggregate_monthly_csv(fs.csv, year, month)]>>
    /\ UNCHANGED <<fs, parseVars, tagVars, cmpVars, idVars, runVars>>

NextAggregate == \E month \in AggMonths : AggregateMonthlyCsv(2026, month)

SpecAggregate == InitAggregate /\ [][NextAggregate]_vars

\* a data row that has a tag and a total that is an integer
Counted(line) ==
    /\ line.kind = "row"
    /\ line.cells.item_tag # Str0
    /\ line.cells.total_price_yen # Str0
    /\ IntOfText(line.cells.total_price_yen) # None

CountedRows(lines) == {i \in 2..Len(lines) : Counted(lines[i])}

RECURSIVE SumOfTotals(_, _)
SumOfTotals(lines, rows) ==
    IF rows = {} THEN 0
    ELSE LET i == CHOOSE i \in rows : TRUE
         IN  IntOfText(lines[i].cells.total_price_yen).n + SumOfTotals(lines, rows \ {i})

AggCalls == {i \in DOMAIN calls : calls[i].op = "_aggregate_monthly_csv"}

\* C18: the totals that _aggregate_monthly_csv returns map exactly the tags
\* of the rows that have a tag and an integer total, each to the sum of the
\* totals of its rows; rows with an empty tag, an empty total or a total
\* that is no integer add nothing, and a month without a ledger gives the
\* empty map
C18_SumsPerTag ==
    \A c \in AggCalls :
        IF PeriodPath(calls[c].year, calls[c].month) \notin DOMAIN fs.csv
        THEN calls[c].totals = << >>
        ELSE LET lines == fs.csv[PeriodPath(calls[c].year, calls[c].month)]
             IN  /\ DOMAIN calls[c].totals =
                        {lines[i].cells.item_tag : i \in CountedRows(lines)}
                 /\ \A tag \in DOMAIN calls[c].totals :
                        calls[c].totals[tag] =
                            SumOfTotals(lines, {i \in CountedRows(lines) :
                                                  lines[i].cells.item_tag = tag})

\* a ledger with two counted rows of one tag and a row whose total is no
\* integer between them has been aggregated
C18_Witness ==
    /\ AggCalls # {}
    /\ PeriodPath(2026, 1) \in DOMAIN fs.csv
    /\ calls[1].month = 1
    /\ LET lines == fs.csv[PeriodPath(2026, 1)]
       IN  /\ Len(lines) = 4
           /\ Counted(lines[2]) /\ Counted(lines[4])
           /\ lines[2].cells.item_tag = lines[4].cells.item_tag
           /\ lines[3].kind = "row"
           /\ lines[3].cells.item_tag = lines[2].cells.item_tag
           /\ lines[3].cells.total_price_yen = <<"a", "b", "c">>
           /\ calls[1].totals[lines[2].cells.item_tag] # 0

(***************************************************************************)
(* The totals of the ledgers that process_receipt writes (SpecPipeline)    *)
(***************************************************************************)
\* the months of the ledgers of the pipeline
LedgerMonths == 1..12

\* C19: every value of the totals that _aggregate_monthly_csv returns for a
\* ledger written by process_receipt is a non-negative integer, whatever
\* the extraction was, negative prices included
C19_TotalsNonNegative ==
    \A month \in LedgerMonths :
        \A tag \in DOMAIN _aggregate_monthly_csv(fs.csv, 2026, month) :
            _aggregate_monthly_csv(fs.csv, 2026, month)[tag] >= 0

(***************************************************************************)
(* The form of the identifiers of build_base_name (SpecId)                 *)
(***************************************************************************)
\* the six time digits that the identifier of a summary is to carry: the
\* normalized time, else the parts of the raw time with the seconds
\* defaulting to 00, else 000000
TimePartOf(summary) ==
    IF Strip(summary.time_norm) # Str0 THEN Filter(Strip(summary.time_norm), {":"}, FALSE)
    ELSE IF Strip(summary.time) # Str0 /\ Len(Split(summary.time, ":")) = 2
    THEN Filter(summary.time, {":"}, FALSE) \o <<"0", "0">>
    ELSE IF Strip(summary.time) # Str0 /\ Len(Split(summary.time, ":")) = 3
    THEN Filter(summary.time, {":"}, FALSE)
    ELSE <<"0", "0", "0", "0", "0", "0">>

\* id is YYYYMMDD_HHMMSS_<merchant> for the summary
WellFormedId(id, summary) ==
    /\ Len(id) >= 17
    /\ AllDigits(SubSeq(id, 1, 8)) /\ id[9] = "_"
    /\ AllDigits(SubSeq(id, 10, 15)) /\ id[16] = "_"
    /\ Len(TimePartOf(summary)) = 6 => SubSeq(id, 10, 15) = TimePartOf(summary)
    /\ IF Strip(summary.merchant_name) = Str0
       THEN SubSeq(id, 17, Len(id)) = <<"U", "N", "K", "N", "O", "W", "N">>
       ELSE \A i \in 17..Len(id) : id[i] \notin INVALID_FILENAME_CHARS

\* C20: the identifier that build_base_name returns has eight digits, an
\* underscore, six digits, an underscore and the merchant part, which is
\* UNKNOWN for a blank merchant name and otherwise has no character of the
\* invalid set; the six digits are those of the normalized time, else of
\* the raw time's parts with the seconds defaulting to 00, else 000000
C20_IdentifierFormat ==
    /\ base1.kind = "return" => WellFormedId(base1.value, rcpt1.summary)
    /\ base2.kind = "return" => WellFormedId(base2.value, rcpt2.summary)

(***************************************************************************)
(* The exceptions of parse_receipt_dict (SpecParse)                        *)
(***************************************************************************)
\* C21: whatever the input tree is, parse_receipt_dict ends with a
\* ReceiptResult or with the rejection ValueError "NOT A RECEIPT"; no other
\* exception leaves it
C21_NoOtherException ==
    ParseDone =>
        \/ p_outcome.kind = "return"
        \/ p_outcome = Raise("ValueError", "NOT A RECEIPT")

(***************************************************************************)
(* The items that _parse_items keeps (SpecParse)                           *)
(***************************************************************************)
\* the elements of the line-item array of the raw extraction
ElemsOf(raw) ==
    IF FieldsOf(raw).kind # "return" THEN << >>
    ELSE IF ItemsNode(FieldsOf(raw).value,
                      {i \in 1..Len(ItemsKeys) : Has(FieldsOf(raw).value, ItemsKeys[i])}) = None
    THEN << >>
    ELSE _extract_value_array(
            ItemsNode(FieldsOf(raw).value,
                      {i \in 1..Len(ItemsKeys) : Has(FieldsOf(raw).value, ItemsKeys[i])}))

\* an element that gives no name, no total price and no unit price
NothingExtracted(elem) ==
    /\ Strip(_pick_str_field(_extract_value_object(elem),
                             <<"Description", "Name", "ProductName", "ItemName">>)) = Str0
    /\ _pick_num_field(_extract_value_object(elem),
                       <<"TotalPrice", "Amount", "Price", "LineTotal">>) = None
    /\ _pick_num_field(_extract_value_object(elem),
                       <<"UnitPrice", "UnitCost", "Price">>) = None

HasNameOrPrice(item) ==
    Strip(item.name) # Str0 \/ item.total_price # None \/ item.unit_price # None

\* C22: every item of a returned ReceiptResult, the pseudo-item included,
\* has a name that is not blank, a total price or a unit price; and the
\* items that _parse_items returns are as many as the elements of the
\* line-item array that give at least one of the three, so that an element
\* is dropped only when all three are missing
C22_ItemsHaveNameOrPrice ==
    (ParseDone /\ p_outcome.kind = "return") =>
        /\ \A i \in 1..Len(p_outcome.value.items) : HasNameOrPrice(p_outcome.value.items[i])
        /\ Len(_parse_items(FieldsOf(p_raw).value)) =
              Cardinality({i \in 1..Len(ElemsOf(p_raw)) : ~NothingExtracted(ElemsOf(p_raw)[i])})

\* a returned result of an array of two elements of which one gave only a
\* quantity and was dropped, and the other was kept
C22_Witness ==
    /\ ParseDone /\ p_outcome.kind = "return"
    /\ Len(ElemsOf(p_raw)) = 2
    /\ \E i \in 1..2 : NothingExtracted(ElemsOf(p_raw)[i])
                       /\ _extract_value_object(ElemsOf(p_raw)[i]) # EmptyDict
    /\ Len(_parse_items(FieldsOf(p_raw).value)) = 1
    /\ Len(p_outcome.value.items) = 1

(***************************************************************************)
(* The rows that one call of process_receipt appends (SpecPipeline)        *)
(***************************************************************************)
\* the lines of a ledger file before it exists
LinesAt(files, path) == IF path \in DOMAIN files THEN files[path] ELSE << >>

\* the lines that a step adds to a ledger file, without the header of a new
\* file
RowsAdded(before, after, path) ==
    SubSeq(after[path],
           (IF path \in DOMAIN before THEN Len(before[path]) ELSE 1) + 1,
           Len(after[path]))

\* the items of the receipt of a call, as the parser returns them
ItemsOfCall(c) == analyze_and_parse(c.image, c.run.ocr, env.pad_year).value.items

\* the identifier of the receipt of a call
IdOfCall(c) ==
    build_base_name(analyze_and_parse(c.image, c.run.ocr, env.pad_year).value,
                    INVALID_FILENAME_CHARS, env.mtime, env.now, env.pad_year)

\* the ledger files that a step changes or creates
Touched(before, after) ==
    {path \in DOMAIN after : LinesAt(before, path) # after[path]}

PeriodAgrees(result, id) ==
    /\ get_monthly_receipt_csv_path(result, id, env.now, env.pad_year)
          = CsvPath(SubSeq(id, 1, 4), SubSeq(id, 5, 6))
    /\ _safe_parse_year(result, id, env.now, env.pad_year) = SubSeq(id, 1, 4)

\* C24: for every receipt, whichever tier gave the date of its identifier,
\* the YYYYMM of its ledger file is the first six digits of the identifier
\* and the year directory of its document is the first four
C24_PeriodOfIdentifier ==
    /\ base1.kind = "return" => PeriodAgrees(rcpt1, base1.value)
    /\ base2.kind = "return" => PeriodAgrees(rcpt2, base2.value)

(***************************************************************************)
(* The date of the identifier of a receipt without a date (SpecPipeline)   *)
(***************************************************************************)
\* the day the images of the input directory were last modified
ImageMTime == MkDate(2025, 12, 31)

\* neither the normalized date nor the raw date of the receipt gives a date
NoDateOfCall(c) ==
    DateOfRaw(DateOfIso(Strip(analyze_and_parse(c.image, c.run.ocr, env.pad_year)
                                  .value.summary.date_iso)),
              analyze_and_parse(c.image, c.run.ocr, env.pad_year).value.summary.date) = None

\* C25: the date of the identifier comes from the normalized date, else
\* from the raw date, else from the day the image was last modified, else
\* from the current day; the image is in the input directory while
\* process_receipt builds the identifier, so the identifier of a receipt
\* without a date carries the day the image was last modified
C25_MTimeTier ==
    \A i \in DOMAIN calls :
        (calls[i].result.ok /\ NoDateOfCall(calls[i])) =>
            \A row \in LedgerRows :
                row.source_file = calls[i].image =>
                    SubSeq(row.receipt_id, 1, 8) = FormatYmd(ImageMTime, env.pad_year)

(***************************************************************************)
(* The tags after a reconciliation that goes through (SpecTag)             *)
(***************************************************************************)
\* the entries of the response that name the item i
EntriesNaming(i) ==
    {n \in 1..Len(EntriesOf(tag_response)) :
        GetOrEmpty(EntriesOf(tag_response)[n], "name") = S(tag_items[i].name)}

\* no later item has the name of item i
LastOfName(i) == \A j \in (i + 1)..Len(tag_items) : tag_items[j].name # tag_items[i].name

\* the last entry that names item i
LastEntryNaming(i) ==
    EntriesOf(tag_response)[CHOOSE n \in EntriesNaming(i) : \A m \in EntriesNaming(i) : m <= n]

PickKeys == {"TotalPrice", "Amount", "Price"}

\* what a key of the field object holds
PickNodes ==
    {Absent, None, S(<<" ">>), S(<<"x">>), N(4), B(TRUE), L(<< >>),
     D("valueString" :> S(<<"v">>)),
     D(("valueString" :> N(2)) @@ ("content" :> S(<<"c">>))),
     D("valueNumber" :> N(6)),
     D(("valueNumber" :> S(<<"6">>)) @@ ("value" :> N(8)))}

PickObjects ==
    {Fields({<<key, nodes[key]>> : key \in PickKeys}) : nodes \in [PickKeys -> PickNodes]}

\* the candidate lists of the calls; one names a key that no object has
PickCandidates ==
    {<<"TotalPrice", "Amount", "Price">>, <<"Price", "LineTotal", "TotalPrice">>}

InitPick ==
    /\ p_raw \in PickObjects
    /\ p_source_file = Str0 /\ p_pad_year = FALSE
    /\ p_outcome = Pending
    /\ TagIdle /\ CmpIdle /\ IdIdle /\ StoreIdle /\ RunIdle

PickStrField(candidates) ==
    /\ p_outcome = Pending
    /\ p_outcome' = [kind |-> "return", op |-> "_pick_str_field",
                     candidates |-> candidates,
                     value |-> _pick_str_field(p_raw, candidates)]
    /\ UNCHANGED <<p_raw, p_source_file, p_pad_year, tagVars, cmpVars, idVars, storeVars, runVars>>

PickNumField(candidates) ==
    /\ p_outcome = Pending
    /\ p_outcome' = [kind |-> "return", op |-> "_pick_num_field",
                     candidates |-> candidates,
                     value |-> _pick_num_field(p_raw, candidates)]
    /\ UNCHANGED <<p_raw, p_source_file, p_pad_year, tagVars, cmpVars, idVars, storeVars, runVars>>

NextPick ==
    \E candidates \in PickCandidates :
        PickStrField(candidates) \/ PickNumField(candidates)

SpecPick == InitPick /\ [][NextPick]_vars

\* the candidates, by position, whose key is in the object and gives a text
\* that is not blank, or a number
UsableStr(fields, candidates) ==
    {i \in 1..Len(candidates) :
        /\ Has(fields, candidates[i])
        /\ Strip(_extract_text_value(fields.d[candidates[i]])) # Str0}

UsableNum(fields, candidates) ==
    {i \in 1..Len(candidates) :
        /\ Has(fields, candidates[i])
        /\ _extract_number_value(fields.d[candidates[i]]) # None}

PickDone(op) == p_outcome.kind = "return" /\ p_outcome.op = op

\* C27: _pick_str_field returns the text of the first candidate, in the
\* order of the list, whose key is present and gives a text that is not
\* blank, and "" when there is none; _pick_num_field returns the number of
\* the first candidate whose key is present and gives a number, and None
\* when there is none
C27_EarliestUsable ==
    /\ PickDone("_pick_str_field") =>
          p_outcome.value =
             (IF UsableStr(p_raw, p_outcome.candidates) = {} THEN Str0
              ELSE _extract_text_value(
                      p_raw.d[p_outcome.candidates[SetMin(UsableStr(p_raw, p_outcome.candidates))]]))
    /\ PickDone("_pick_num_field") =>
          p_outcome.value =
             (IF UsableNum(p_raw, p_outcome.candidates) = {} THEN None
              ELSE _extract_number_value(
                      p_raw.d[p_outcome.candidates[SetMin(UsableNum(p_raw, p_outcome.candidates))]]))

\* the first candidate is present and gives nothing usable, the second is
\* absent, and the third and last gives the value returned
C27_Witness ==
    /\ PickDone("_pick_num_field")
    /\ Has(p_raw, p_outcome.candidates[1])
    /\ ~Has(p_raw, p_outcome.candidates[2])
    /\ UsableNum(p_raw, p_outcome.candidates) = {3}
    /\ UsableStr(p_raw, p_outcome.candidates) = {1}
    /\ p_outcome.value # None

(***************************************************************************)
(* The documents that the ledger rows name (SpecPipeline)                  *)
(***************************************************************************)
\* the document at path was written for the receipt of the row: it has the
\* name of the row's document column, which starts with the identifier of
\* the row, and it holds the source file, the date and the item of the row
DocumentOfRow(path, row) ==
    /\ path[2] = row.json_file
    /\ IsPrefix(row.receipt_id, path[2])
    /\ fs.json[path].source_file = row.source_file
    /\ fs.json[path].summary.date = row.date
    /\ fs.json[path].summary.merchant_name = row.merchant_name
    /\ \E i \in DOMAIN fs.json[path].items : fs.json[path].items[i].name = row.item_name

\* C28: in every state, the document column of every ledger row names a
\* document that is in the document store and was written for the receipt
\* of the row, also after calls that failed at any step
C28_RowsNameTheirDocument ==
    \A row \in LedgerRows : \E path \in DOMAIN fs.json : DocumentOfRow(path, row)

\* two receipts with the same identifier were stored: the rows of the
\* second name the document with the collision suffix
C28_Witness ==
    /\ Len(calls) = 2
    /\ calls[1].result.ok /\ calls[2].result.ok
    /\ \E r1 \in LedgerRows, r2 \in LedgerRows :
          /\ r1.receipt_id = r2.receipt_id
          /\ r1.source_file = calls[1].image /\ r2.source_file = calls[2].image
          /\ r1.json_file = r1.receipt_id \o JsonSuffix
          /\ r2.json_file = IndexedName(r2.receipt_id, 1, JsonSuffix)

(***************************************************************************)
(* The rows of an image over several runs (SpecPipeline)                   *)
(***************************************************************************)
\* the places of the rows of the ledger files: <<path, line number>>
RowPlaces ==
    UNION {{<<path, n>> : n \in {m \in 1..Len(fs.csv[path]) : fs.csv[path][m].kind = "row"}} :
           path \in DOMAIN fs.csv}

RowAt(place) == fs.csv[place[1]][place[2]].cells

\* C29: an image of which process_receipt has appended rows has left the
\* input directory when the call returns, also when a later step of the
\* call failed, so that over any sequence of calls no item of an image is
\* in the ledger twice
C29_AppendedAtMostOnce ==
    /\ \A place \in RowPlaces : RowAt(place).source_file \notin fs.input
    /\ \A p1 \in RowPlaces, p2 \in RowPlaces :
          (/\ RowAt(p1).source_file = RowAt(p2).source_file
           /\ RowAt(p1).item_name = RowAt(p2).item_name) => p1 = p2


(***************************************************************************)
(* receipt_grapher._aggregate_by_category                                  *)
(***************************************************************************)
\* a row whose total is empty counts as a total of zero
GraphAddRow_empty_is_zero(totals, line) ==
    IF line.kind = "header" THEN totals
    ELSE [tag \in DOMAIN totals \cup {CellOf(line, "item_tag")} |->
            IF tag = CellOf(line, "item_tag")
            THEN GetOrZero(totals, tag)
                 + (IF IntOfText(CellOf(line, "total_price_yen")) = None THEN 0
                    ELSE IntOfText(CellOf(line, "total_price_yen")).n)
            ELSE totals[tag]]

\* the code points that str.strip() removes; a category cell is a sequence of
\* code points, as the values of ReceiptTag are
SpacePoints ==
    (9..13) \cup (28..32) \cup {133, 160, 5760} \cup (8192..8202)
    \cup {8232, 8233, 8239, 8287, 12288}

RECURSIVE StripPoints(_)
StripPoints(s) ==
    IF s = Str0 THEN s
    ELSE IF Head(s) \in SpacePoints THEN StripPoints(Tail(s))
    ELSE IF s[Len(s)] \in SpacePoints THEN StripPoints(SubSeq(s, 1, Len(s) - 1))
    ELSE s

\* lines 217-218, 220-221: the stripped cell, the value of UNKNOWN when that
\* is empty
GraphTag(line) ==
    IF StripPoints(CellOf(line, "item_tag")) = Str0 THEN ReceiptTag["UNKNOWN"]
    ELSE StripPoints(CellOf(line, "item_tag"))

\* lines 216-228 for one row: totals after the row; int() fails on the
\* column name of a repeated header line and on an empty cell
GraphAddRow(totals, line) ==
    IF line.kind = "header" THEN totals
    ELSE IF IntOfText(CellOf(line, "total_price_yen")) = None THEN totals
    ELSE [tag \in DOMAIN totals \cup {GraphTag(line)} |->
            IF tag = GraphTag(line)
            THEN GetOrZero(totals, tag) + IntOfText(CellOf(line, "total_price_yen")).n
            ELSE totals[tag]]

RECURSIVE GraphAddRows(_, _)
GraphAddRows(totals, lines) ==
    IF lines = << >> THEN totals
    ELSE GraphAddRows(GraphAddRow(totals, Head(lines)), Tail(lines))

\* lines 211-230: both readers look the two columns up by name, and the byte
\* order mark that only one of them removes joins the name of the first
\* column, receipt_id
_aggregate_by_category(lines) == GraphAddRows(<< >>, DataLines(lines))

(***************************************************************************)
(* SpecLedger: process_receipt writes the ledgers, and then the summary    *)
(* and the graphs read them, as main does after its loop over the images   *)
(***************************************************************************)
\* extractions with two items: one without a price, one with a price of
\* zero, one with a negative price
LedgerOcrOutcomes ==
    {[kind |-> "return", raw |->
        RawOf(N(600), Absent, S(<<"a">>), Absent, Absent,
              L(<<D("valueObject" :> D(("Description" :> S(<<"a">>))
                                       @@ ("TotalPrice" :> N(600)))),
                  D("valueObject" :> D("Description" :> S(<<"b">>)))>>))],
     [kind |-> "return", raw |->
        RawOf(Absent, Absent, S(<<"a">>), Absent, Absent,
              L(<<D("valueObject" :> D("Description" :> S(<<"a">>))),
                  D("valueObject" :> D(("Description" :> S(<<"b">>))
                                       @@ ("TotalPrice" :> N(0))))>>))],
     [kind |-> "return", raw |->
        RawOf(N(1000), Absent, S(<<"A", "/", "B">>),
              D("valueDate" :> S(<<"2", "0", "2", "6", "/", "1", "/", "5">>)),
              S(<<"9", ":", "0", "5">>),
              L(<<D("valueObject" :> D(("Description" :> S(<<"a">>))
                                       @@ ("TotalPrice" :> N(600)))),
                  D("valueObject" :> D(("Description" :> S(<<"b">>))
                                       @@ ("TotalPrice" :> N(-3))))>>))]}

LedgerRuns == [ocr : LedgerOcrOutcomes, response : PipelineResponses, fault : {"none", "partial"}]

Readings(op) == {i \in DOMAIN calls : calls[i].op = op}

\* main.py 174-230: the images are processed before anything is read
ProcessBeforeReading(image, run) ==
    /\ Readings("_aggregate_monthly_csv") = {}
    /\ Readings("_aggregate_by_category") = {}
    /\ ProcessReceipt(image, run)

\* receipt_manager.py 506-521: the summary reads the ledger of a month
SummaryReads(year, month) ==
    /\ Readings("_aggregate_monthly_csv") = {}
    /\ calls' = Append(calls, [op |-> "_aggregate_monthly_csv", year |-> year, month |-> month,
                                totals |-> _aggregate_monthly_csv(fs.csv, year, month)])
    /\ UNCHANGED <<fs, parseVars, tagVars, cmpVars, idVars, runVars>>

\* receipt_grapher.py 70-80, 153-155: a graph reads a ledger file that exists
GraphReads(csv_path) ==
    /\ Readings("_aggregate_by_category") = {}
    /\ csv_path \in DOMAIN fs.csv
    /\ calls' = Append(calls, [op |-> "_aggregate_by_category", csv_path |-> csv_path,
                                totals |-> _aggregate_by_category(fs.csv[csv_path])])
    /\ UNCHANGED <<fs, parseVars, tagVars, cmpVars, idVars, runVars>>

\* the months read: that of the dated receipt, the month before the current
\* one, which has no ledger, and the current one, where the undated receipts go
ReadMonths == {MkDate(2026, 1, 5).m, Today.m - 1, Today.m}

NextLedger ==
    \/ \E image \in Images, run \in LedgerRuns : ProcessBeforeReading(image, run)
    \/ \E month \in ReadMonths : SummaryReads(Today.y, month)
    \/ \E month \in ReadMonths : GraphReads(PeriodPath(Today.y, month))

SpecLedger == InitPipeline /\ [][NextLedger]_vars

\* a summary reading and a graph reading of the same ledger file
SameLedgerRead(i, j) ==
    /\ i \in Readings("_aggregate_monthly_csv")
    /\ j \in Readings("_aggregate_by_category")
    /\ PeriodPath(calls[i].year, calls[i].month) = calls[j].csv_path

\* C30: for every ledger file that process_receipt has written,
\* _aggregate_monthly_csv and _aggregate_by_category return the same map
\* from category to sum, also when the file has rows with an empty total and
\* rows of the category UNKNOWN
C30_AggregatorsAgree ==
    \A i \in DOMAIN calls, j \in DOMAIN calls :
        SameLedgerRead(i, j) => calls[i].totals = calls[j].totals

\* both have read a ledger that has a row with an empty total, a row of the
\* category UNKNOWN with a total and a row of another category with a total
C30_Witness ==
    \E i \in DOMAIN calls, j \in DOMAIN calls :
        /\ SameLedgerRead(i, j)
        /\ \E a, b, c \in DOMAIN fs.csv[calls[j].csv_path] :
              LET lines == fs.csv[calls[j].csv_path]
              IN  /\ lines[a].kind = "row" /\ lines[b].kind = "row" /\ lines[c].kind = "row"
                  /\ lines[a].cells.total_price_yen = Str0
                  /\ lines[b].cells.item_tag = ReceiptTag["UNKNOWN"]
                  /\ lines[b].cells.total_price_yen # Str0
                  /\ lines[c].cells.item_tag = ReceiptTag["FOOD"]
                  /\ lines[c].cells.total_price_yen # Str0
        /\ DOMAIN calls[j].totals = {ReceiptTag["UNKNOWN"], ReceiptTag["FOOD"]}

====
